---- MODULE Spec2Model ----
(***************************************************************************)
(* A model of the RoadVoice-data scripts: the AllThePlaces extractor       *)
(* (scripts/extract-brand.js), the OpenStreetMap extractor                 *)
(* (extract-osm-brand.js, the second script of src/scripts/generate-zip.js)*)
(* and the two validators (validate-state-boundaries.js,                   *)
(* validate-cities.js).                                                    *)
(*                                                                         *)
(* JavaScript strings are TLA+ strings, taken apart with Len, SubSeq and   *)
(* \o.  A missing tag (undefined) and an empty tag are both "": the code   *)
(* only ever tests tags for truthiness.  Coordinates are integers in units *)
(* of 1e-7 degree, so that the rounding to 6, 5 and 4 decimals is visible. *)
(***************************************************************************)
EXTENDS Integers, Sequences, FiniteSets, TLC

(***************************************************************************)
(* JavaScript string primitives                                            *)
(***************************************************************************)
Ch(s, i) == SubSeq(s, i, i)

AZ_LOWER == "abcdefghijklmnopqrstuvwxyz"
AZ_UPPER == "ABCDEFGHIJKLMNOPQRSTUVWXYZ"
DIGIT_CHARS == "0123456789"
\* The non-ASCII letters of the source's city names: letters for toUpperCase and
\* toLowerCase, but not \w for a regular expression.
ACCENT_LOWER == "ñé"
ACCENT_UPPER == "ÑÉ"

CharsOf(s) == {Ch(s, i) : i \in 1..Len(s)}
LowerLetters == CharsOf(AZ_LOWER)
UpperLetters == CharsOf(AZ_UPPER)
Digits == CharsOf(DIGIT_CHARS)

IsLower(c) == c \in LowerLetters
IsUpper(c) == c \in UpperLetters
IsDigit(c) == c \in Digits
\* \w
IsWord(c) == c \in LowerLetters \cup UpperLetters \cup Digits \cup {"_"}
\* \s
IsSpace(c) == c \in {" ", "\t", "\n"}

UpperOf ==
  [c \in CharsOf(AZ_LOWER \o ACCENT_LOWER) |->
     Ch(AZ_UPPER \o ACCENT_UPPER,
        CHOOSE i \in 1..Len(AZ_LOWER \o ACCENT_LOWER) : Ch(AZ_LOWER \o ACCENT_LOWER, i) = c)]
LowerOf ==
  [c \in CharsOf(AZ_UPPER \o ACCENT_UPPER) |->
     Ch(AZ_LOWER \o ACCENT_LOWER,
        CHOOSE i \in 1..Len(AZ_UPPER \o ACCENT_UPPER) : Ch(AZ_UPPER \o ACCENT_UPPER, i) = c)]
toUpperChar(c) == IF c \in DOMAIN UpperOf THEN UpperOf[c] ELSE c
toLowerChar(c) == IF c \in DOMAIN LowerOf THEN LowerOf[c] ELSE c

RECURSIVE toUpperCase(_)
toUpperCase(s) == IF s = "" THEN "" ELSE toUpperChar(Head(s)) \o toUpperCase(Tail(s))

RECURSIVE toLowerCase(_)
toLowerCase(s) == IF s = "" THEN "" ELSE toLowerChar(Head(s)) \o toLowerCase(Tail(s))

\* s.substring(i) with i counted from 0
substring(s, i) == IF i >= Len(s) THEN "" ELSE SubSeq(s, i + 1, Len(s))
startsWith(s, p) == Len(p) <= Len(s) /\ SubSeq(s, 1, Len(p)) = p
endsWith(s, p) == Len(p) <= Len(s) /\ SubSeq(s, Len(s) - Len(p) + 1, Len(s)) = p
\* whether p occurs in s at (1-based) index i
OccursAt(s, p, i) == i >= 1 /\ i + Len(p) - 1 <= Len(s) /\ SubSeq(s, i, i + Len(p) - 1) = p
\* the least (1-based) index from i on at which p occurs in s; 0 when there is none
RECURSIVE FirstOccurrence(_, _, _)
FirstOccurrence(s, p, i) ==
  IF i + Len(p) - 1 > Len(s) THEN 0
  ELSE IF OccursAt(s, p, i) THEN i
  ELSE FirstOccurrence(s, p, i + 1)

includes(s, p) == FirstOccurrence(s, p, 1) > 0
\* s.indexOf(p), counted from 0; -1 when p does not occur
indexOf(s, p) == FirstOccurrence(s, p, 1) - 1

\* the number of whitespace characters of s from index i on (forwards)
RECURSIVE SpaceRun(_, _)
SpaceRun(s, i) == IF i >= 1 /\ i <= Len(s) /\ IsSpace(Ch(s, i)) THEN 1 + SpaceRun(s, i + 1) ELSE 0
\* the number of whitespace characters of s ending at index i (backwards)
RECURSIVE SpaceRunBack(_, _)
SpaceRunBack(s, i) == IF i >= 1 /\ i <= Len(s) /\ IsSpace(Ch(s, i)) THEN 1 + SpaceRunBack(s, i - 1) ELSE 0

trim(s) ==
  LET a == SpaceRun(s, 1)
      b == SpaceRunBack(s, Len(s))
  IN  IF a >= Len(s) THEN "" ELSE SubSeq(s, a + 1, Len(s) - b)

\* s.split(sep) for a non-empty separator: the parts, an empty s giving <<"">>
RECURSIVE split(_, _)
split(s, sep) ==
  LET k == indexOf(s, sep)
  IN  IF k < 0 THEN <<s>>
      ELSE <<SubSeq(s, 1, k)>> \o split(substring(s, k + Len(sep)), sep)

RECURSIVE join(_, _)
join(parts, sep) ==
  IF Len(parts) = 0 THEN ""
  ELSE IF Len(parts) = 1 THEN parts[1]
  ELSE parts[1] \o sep \o join(Tail(parts), sep)

\* s.replace(/p/g, r) for a literal p: matches are taken left to right and do not overlap
RECURSIVE replaceAll(_, _, _)
replaceAll(s, p, r) ==
  LET k == indexOf(s, p)
  IN  IF k < 0 THEN s
      ELSE SubSeq(s, 1, k) \o r \o replaceAll(substring(s, k + Len(p)), p, r)

\* \b before index i of s: a word character with no word character before it
WordStartAt(s, i) == i >= 1 /\ i <= Len(s) /\ IsWord(Ch(s, i)) /\ (i = 1 \/ ~IsWord(Ch(s, i - 1)))
\* \b after index i of s, which holds a word character
WordEndAt(s, i) == i = Len(s) \/ ~IsWord(Ch(s, i + 1))

SeqToSet(q) == {q[i] : i \in 1..Len(q)}
\* the entries of a list, lower-cased
LowerSet(list) == {toLowerCase(list[i]) : i \in 1..Len(list)}

\* extract-brand.js STATE_NAMES: the full state names, in source order
STATE_NAMES ==
  << "Alabama", "Alaska", "Arizona", "Arkansas", "California", "Colorado", "Connecticut",
     "Delaware", "Florida", "Georgia", "Hawaii", "Idaho", "Illinois", "Indiana", "Iowa", "Kansas",
     "Kentucky", "Louisiana", "Maine", "Maryland", "Massachusetts", "Michigan", "Minnesota",
     "Mississippi", "Missouri", "Montana", "Nebraska", "Nevada", "New Hampshire", "New Jersey",
     "New Mexico", "New York", "North Carolina", "North Dakota", "Ohio", "Oklahoma", "Oregon",
     "Pennsylvania", "Rhode Island", "South Carolina", "South Dakota", "Tennessee", "Texas",
     "Utah", "Vermont", "Virginia", "Washington", "West Virginia", "Wisconsin", "Wyoming",
     "District of Columbia" >>

\* Legitimate cities with repeated words
REPEATED_WORD_CITIES ==
  << "Paw Paw", "Walla Walla", "Bora Bora", "Ding Dong", "Wagga Wagga", "Baden Baden",
     "Bala Bala", "Sing Sing", "Coeur d'Alene" >>

\* Cities ending with "Summit" (Summit is a county name)
SUMMIT_CITIES ==
  << "Lee's Summit", "Lees Summit", "Blue Summit", "Park Summit", "Oak Summit", "Clarks Summit",
     "Holts Summit", "Grants Summit" >>

\* Cities whose endings are never stripped (they end with county names)
PROTECTED_CITIES ==
  << "Fort Wayne", "Lake Wayne", "Port Wayne", "West Palm Beach", "North Palm Beach",
     "Palm Beach", "Long Beach", "Virginia Beach", "Myrtle Beach", "Delray Beach",
     "Pompano Beach", "Deerfield Beach", "Boynton Beach", "Huntington Beach", "Newport Beach",
     "Laguna Beach", "Hermosa Beach", "Redondo Beach", "Manhattan Beach", "Seal Beach",
     "Solana Beach", "Imperial Beach", "Pismo Beach", "Salt Lake", "Lake", "Crystal Lake",
     "Spring Lake", "Clear Lake", "Round Lake", "Silver Lake", "Long Lake", "Twin Lake",
     "White Lake", "Green Lake", "Big Lake", "Grass Lake", "Bear Lake", "Storm Lake",
     "Spirit Lake", "Indian Lake", "Bass Lake", "Eagle Lake", "Elk Lake", "Deer Lake", "Fox Lake",
     "Torch Lake", "Gull Lake", "Burt Lake", "Higgins Lake", "Houghton Lake", "Portage Lake",
     "Walled Lake", "Orchard Lake", "Commerce Lake", "Union Lake", "Williams Lake",
     "Cadillac Lake", "Balsam Lake", "Rice Lake", "Turtle Lake", "Shell Lake", "Cameron Lake",
     "Cass Lake", "Horn Lake", "Devils Lake", "Elbow Lake", "Wonder Lake", "Third Lake",
     "Minnesota Lake", "Ottawa Lake", "Pleasant Lake", "Hubbard Lake", "Howard Lake",
     "Canyon Lake", "Manitou Lake", "Diamond Lake", "Moose Lake", "Otter Lake", "Tupper Lake",
     "Saranac Lake", "Sylvan Lake", "Island Lake", "Croton Lake", "Swan Lake", "Pell Lake",
     "Lady Lake", "Bonney Lake", "Moses Lake", "Prior Lake", "Forest Lake", "White Lake",
     "Rice Lake", "Spirit Lake", "Clear Lake", "Walled Lake", "Canyon Lake", "Devils Lake",
     "Mohegan Lake", "Carter Lake", "Mount Marion", "Lake Marion", "Mount Washington",
     "Port Washington", "Lake Washington", "Mount Jefferson", "Port Jefferson", "Lake Jefferson",
     "Fort Madison", "Lake Madison", "Port Madison", "Port Jackson", "Lake Jackson",
     "Fort Jackson", "Mount Hamilton", "Lake Hamilton", "Port Hamilton", "Mount Montgomery",
     "Lake Houston", "Port Houston", "North Charleston", "West Charleston", "Mount Pleasant",
     "Mount Vernon", "Mount Prospect", "Mount Laurel", "Mount Holly", "Mount Morris",
     "Mount Clemens", "Mount Olive", "Mount Airy", "Mount Carmel", "Mount Dora", "Mount Juliet",
     "Mount Kisco", "Mount Lebanon", "Mount Rainier", "West Sacramento", "South San Francisco",
     "East Palo Alto", "North Hollywood", "Port St. Lucie", "Port Orange", "Port Arthur",
     "Port Huron", "Port Charlotte", "Fort Worth", "Fort Lauderdale", "Fort Myers",
     "Fort Collins", "Fort Smith", "Fort Pierce", "Fort Lee", "Fort Knox", "Fort Dodge",
     "Fort Walton Beach", "Fort Bragg", "Fort Morgan", "Fort Payne", "Fort Valley",
     "Fort Oglethorpe", "Fort Atkinson", "Fort Mill", "Fort Scott", "Fort Thomas",
     "Fort Mitchell", "Fort Meade", "Fort White", "Fort McCoy", "North Fort Myers",
     "West Chester", "East Orange", "North Bergen", "South Bend", "Grand Rapids", "West Orange",
     "East Dallas", "North Dallas", "South Dallas", "West Jefferson", "East Jefferson",
     "North Jefferson", "West Union", "East Union", "North Union", "South Union", "West Salem",
     "East Salem", "North Salem", "South Salem", "West Monroe", "East Monroe", "North Monroe",
     "South Monroe", "West Columbia", "East Columbia", "North Columbia", "South Columbia",
     "West Haven", "East Haven", "North Haven", "South Haven", "West Point", "East Point",
     "North Point", "South Point", "West Liberty", "East Liberty", "North Liberty",
     "South Liberty", "Camp Douglas", "Fort Douglas", "Castle Douglas", "Fork Union",
     "Port Union", "Mount Union", "Canyon Country", "Canyon City", "San Diego", "San Francisco",
     "San Jose", "San Antonio", "Los Angeles", "Las Vegas", "El Paso", "St. Louis", "St. Paul",
     "St. Petersburg", "New York", "New Orleans", "New Haven", "New Bedford", "Royal Oak",
     "Royal Palm Beach", "Lake Worth", "Lake Charles", "Lake City", "Lake Placid", "Lake Forest",
     "Lake Oswego", "Lake Geneva", "Lake Havasu City", "Cedar Rapids", "Grand Prairie",
     "Oak Park", "Oak Lawn", "Oak Ridge", "Coral Springs", "Palm Springs", "Palm Coast",
     "Palm Bay", "Palm Harbor", "Belle Vernon", "Mount Vernon", "East Cleveland",
     "West Cleveland", "South Charleston", "North Charleston", "East Chicago", "West Chicago",
     "Corte Madera", "Liberty Lake", "Budd Lake", "June Lake", "Whitmore Lake", "Battle Lake",
     "Long Lake", "Island Lake", "Third Lake", "Wonder Lake", "Paddock Lake", "Round Lake",
     "Mirror Lake", "Sturgeon Lake", "Green Lake" >>

\* County names in source order: compound names first, then single words
COUNTY_NAMES ==
  << "Salt Lake", "New York", "New Haven", "Fond du Lac", "Eau Claire", "District of Columbia",
     "Prince George", "Anne Arundel", "Prince William", "St. Louis", "St. Clair", "Palm Beach",
     "Miami-Dade", "Los Angeles", "San Diego", "San Francisco", "San Bernardino", "San Mateo",
     "Santa Clara", "Contra Costa", "El Paso", "Broward", "Harris", "Bexar", "Dallas", "Tarrant",
     "Travis", "Maricopa", "Pima", "Clark", "Washoe", "King", "Pierce", "Snohomish", "Multnomah",
     "Clackamas", "Sacramento", "Orange", "Riverside", "Alameda", "Fresno", "Kern", "Ventura",
     "Cook", "DuPage", "Lake", "Will", "Kane", "Wayne", "Oakland", "Macomb", "Cuyahoga",
     "Franklin", "Hamilton", "Montgomery", "Summit", "Lucas", "Allegheny", "Philadelphia",
     "Delaware", "Bucks", "Chester", "Lancaster", "Suffolk", "Nassau", "Westchester", "Erie",
     "Monroe", "Onondaga", "Queens", "Middlesex", "Essex", "Bergen", "Hudson", "Union", "Passaic",
     "Morris", "Monmouth", "Ocean", "Camden", "Burlington", "Gloucester", "Mercer", "Fairfax",
     "Loudoun", "Arlington", "Henrico", "Chesterfield", "Hillsborough", "Pinellas", "Duval",
     "Seminole", "Volusia", "Lee", "Polk", "Brevard", "Pasco", "Sarasota", "Manatee", "Collier",
     "Marion", "Fulton", "DeKalb", "Gwinnett", "Cobb", "Clayton", "Cherokee", "Forsyth", "Henry",
     "Douglas", "Rockdale", "Newton", "Paulding", "Fayette", "Carroll", "Mecklenburg", "Wake",
     "Guilford", "Cumberland", "Durham", "Buncombe", "Gaston", "Cabarrus", "Iredell", "Catawba",
     "Rowan", "Davidson", "Greenville", "Richland", "Charleston", "Horry", "Spartanburg",
     "Lexington", "York", "Berkeley", "Dorchester", "Anderson", "Aiken", "Beaufort", "Shelby",
     "Knox", "Rutherford", "Williamson", "Sumner", "Wilson", "Blount", "Sullivan", "Washington",
     "Sevier", "Jefferson", "Madison", "Mobile", "Baldwin", "Tuscaloosa", "Morgan", "Etowah",
     "Calhoun", "Houston", "Limestone", "Collin", "Denton", "Tulsa", "Denver", "Milwaukee",
     "Spokane", "Salt", "Midland", "Lubbock", "Pueblo", "Yuma", "Florence", "Hartford", "Madera",
     "Victoria", "Kenosha", "Waukesha", "Yakima", "Monterey", "Jackson", "Autauga", "Barbour",
     "Bibb", "Bullock", "Chambers", "Cherokee", "Chilton", "Choctaw", "Clarke", "Clay",
     "Cleburne", "Coffee", "Colbert", "Conecuh", "Coosa", "Covington", "Crenshaw", "Cullman",
     "Dale", "Dallas", "Elmore", "Escambia", "Geneva", "Greene", "Hale", "Lamar", "Lauderdale",
     "Lawrence", "Lowndes", "Macon", "Marengo", "Marshall", "Perry", "Pickens", "Pike",
     "Randolph", "Russell", "Talladega", "Tallapoosa", "Walker", "Wilcox", "Winston", "Apache",
     "Cochise", "Coconino", "Gila", "Graham", "Greenlee", "Mohave", "Navajo", "Pinal", "Yavapai",
     "Benton", "Boone", "Craighead", "Crawford", "Crittenden", "Faulkner", "Garland", "Lonoke",
     "Miller", "Poinsett", "Pope", "Pulaski", "Sebastian", "White", "Butte", "Contra", "Glenn",
     "Humboldt", "Imperial", "Inyo", "Lassen", "Marin", "Mendocino", "Merced", "Modoc", "Napa",
     "Nevada", "Placer", "Plumas", "Shasta", "Siskiyou", "Solano", "Sonoma", "Stanislaus",
     "Sutter", "Tehama", "Trinity", "Tulare", "Tuolumne" >>

\* cleanCity: words that may never be left alone after stripping a county
INVALID_SINGLE_WORDS ==
  << "mount", "fort", "port", "west", "east", "north", "south", "lake", "big", "bear", "deer",
     "elk", "fox", "eagle", "wolf", "bass", "grass", "pine", "oak", "cedar", "maple", "spring",
     "crystal", "silver", "golden", "royal", "grand", "little", "new", "old", "upper", "lower",
     "middle", "center", "saint", "san", "santa", "las", "los", "el", "la", "del", "de", "lees",
     "lee's", "horn", "moses", "bonney", "clarks", "holts", "corte", "prior", "forest", "rice",
     "liberty", "lady", "walla", "devils", "devil's", "budd", "mohegan", "island", "third",
     "wonder", "mirror", "battle", "canal", "mentor", "young", "sour", "white", "clear", "storm",
     "spirit", "carter" >>

\* isHotelOrResortName: keywords (matched as substrings of the lower-cased name)
hotelKeywords ==
  << "hotel", "motel", "inn ", " inn", "resort", "lodge", "suites", "suite", "hyatt", "marriott",
     "hilton", "sheraton", "westin", "alila", "ritz", "four seasons", "fairmont",
     "intercontinental", "holiday house", "spa ", " spa", "ranch ", " ranch", "campground",
     "camping", "casa ", "hacienda", "villa ", "villas", "chateau", "manor", "beach resort",
     "golf course", "country club", "the pearl", "the bower", "the estate", "the laurel",
     "the shay", "dream hollywood", "gaige house", "sparrows lodge", "terra vita", "wild palms",
     "pioneertown", "mar monte", "marina riviera", "apartments", "byward market", "the june",
     "the walper", "the wilfrid", "spirit ridge", "under canvas", "andaz ", "elwood hotel",
     "holston house", "ette hotel", "siren hotel", "bluebird cady", "standard spa", "xv beacon",
     "richard rindge", "summercamp", "salt house inn", "christopher's by the bay", "awol",
     "pell hotel", "block island beach", "lodge at spruce", "park hyatt", "convention center",
     "conference center", "dunton town", "vail residences", "austria haus",
     "cheyenne mountain resort", "fogo de", "rio all suite", "palazzo", "venetian", "the row" >>

\* isInvalidCityName: single words that are not a city
invalidSingleWords ==
  << "west", "east", "north", "south", "mount", "mt", "mt.", "fort", "ft", "ft.", "lake", "port",
     "point", "camp", "china", "city", "downtown", "airport", "county", "area", "region",
     "center", "central", "plumas", "shasta", "lax", "sfo", "jfk", "ord", "dfw", "mia", "sea",
     "las", "phx", "seaworld", "disneyland", "disneyworld" >>

\* State abbreviations used for URL parsing
STATE_ABBREVS ==
  << "AL", "AK", "AZ", "AR", "CA", "CO", "CT", "DE", "FL", "GA", "HI", "ID", "IL", "IN", "IA",
     "KS", "KY", "LA", "ME", "MD", "MA", "MI", "MN", "MS", "MO", "MT", "NE", "NV", "NH", "NJ",
     "NM", "NY", "NC", "ND", "OH", "OK", "OR", "PA", "RI", "SC", "SD", "TN", "TX", "UT", "VT",
     "VA", "WA", "WV", "WI", "WY", "DC" >>

\* normalizeCity: the per-state blocks  if (state === S) { if (city === F) return T; ... }
\* as triples <<S, F, T>> in source order (a condition F1 || F2 gives two triples).
STATE_OVERRIDES ==
  << <<"NY", "New York", "New York City">>, <<"NY", "Newyork", "New York City">>,
     <<"NY", "Bronx", "The Bronx">>, <<"AZ", "Ft. Huachuca", "Fort Huachuca">>,
     <<"AZ", "Greenvalley", "Green Valley">>, <<"AZ", "Huachuca City,", "Huachuca City">>,
     <<"AZ", "Lake Havasu Cty", "Lake Havasu City">>, <<"AZ", "Pheonix", "Phoenix">>,
     <<"AZ", "Prescott,", "Prescott">>, <<"AZ", "Queens Creek", "Queen Creek">>,
     <<"AZ", "St. David", "Saint David">>, <<"AZ", "St. Johns", "Saint Johns">>,
     <<"AZ", "St. Michaels", "Saint Michaels">>, <<"CA", "Bakerfield", "Bakersfield">>,
     <<"CA", "Big Bear", "Big Bear Lake">>, <<"CA", "Toluca", "Toluca Lake">>,
     <<"CA", "June", "June Lake">>, <<"CA", "June Lake,", "June Lake">>,
     <<"CA", "Mt.", "Mt. Shasta">>, <<"CA", "Mt", "Mt. Shasta">>,
     <<"CA", "29 Palms", "Twentynine Palms">>, <<"CA", "Twenty-Nine Palms", "Twentynine Palms">>,
     <<"CA", "Camp Pendelton", "Camp Pendleton">>, <<"CA", "Cathedral Cty", "Cathedral City">>,
     <<"CA", "Clearlake Oaks", "Clear Lake Oaks">>,
     <<"CA", "Desert Hot Sprngs", "Desert Hot Springs">>,
     <<"CA", "E Los Angeles", "East Los Angeles">>,
     <<"CA", "La Canada Flintridge", "La Cañada Flintridge">>, <<"CA", "Lahabra", "La Habra">>,
     <<"CA", "Lamirada", "La Mirada">>, <<"CA", "N Hollywood", "North Hollywood">>,
     <<"CA", "N. Hollywood", "North Hollywood">>, <<"CA", "Quartzhill", "Quartz Hill">>,
     <<"CA", "Redondo Bch.", "Redondo Beach">>,
     <<"CA", "Rncho Snta Margarita", "Rancho Santa Margarita">>,
     <<"CA", "Rolling Hills Estate", "Rolling Hills Estates">>,
     <<"CA", "S Los Angeles", "South Los Angeles">>, <<"CA", "S. Pasadena", "South Pasadena">>,
     <<"CA", "S. San Francisco", "South San Francisco">>, <<"CA", "Sacramento,", "Sacramento">>,
     <<"CA", "Shasta Lake City", "Shasta Lake">>, <<"CA", "St. Helena", "Saint Helena">>,
     <<"CA", "Suisun City", "Suisun">>, <<"CA", "W Merced", "West Merced">>,
     <<"CA", "Bell,", "Bell">>, <<"CA", "Windsor,", "Windsor">>,
     <<"MI", "Manitou Beach-Devils", "Manitou Beach">>, <<"MI", "Whitmore", "Whitmore Lake">>,
     <<"MI", "White", "White Lake">>, <<"MI", "Centerline", "Center Line">>,
     <<"MI", "De Tour Village", "DeTour Village">>, <<"MI", "De Witt", "DeWitt">>,
     <<"MI", "Houghton Lake Heights", "Houghton Lake">>, <<"MI", "Hree Rivers", "Three Rivers">>,
     <<"MI", "Mt Pleasant", "Mount Pleasant">>,
     <<"MI", "Sault Ste. Marie", "Sault Sainte Marie">>, <<"MI", "St Joseph", "Saint Joseph">>,
     <<"MI", "St. Joseph", "Saint Joseph">>, <<"MI", "St. Charles", "Saint Charles">>,
     <<"MI", "St. Clair", "Saint Clair">>, <<"MI", "St. Clair Shores", "Saint Clair Shores">>,
     <<"MI", "St. Helen", "Saint Helen">>, <<"MI", "St. Ignace", "Saint Ignace">>,
     <<"MI", "St. Johns", "Saint Johns">>, <<"MI", "St. Louis", "Saint Louis">>,
     <<"MI", "W Bloomfield", "West Bloomfield">>, <<"MI", "Gaylord..", "Gaylord">>,
     <<"MI", "Canton Twp", "Canton">>, <<"MI", "Canton Township", "Canton">>,
     <<"MI", "Chesterfield Twp", "Chesterfield">>,
     <<"MI", "Chesterfield Townshi", "Chesterfield">>, <<"MI", "Clinton Township", "Clinton">>,
     <<"MI", "Commerce Twp", "Commerce">>, <<"MI", "Commerce Township", "Commerce">>,
     <<"MI", "Macomb Twp.", "Macomb">>, <<"MI", "Macomb Township", "Macomb">>,
     <<"MI", "Redford Twp", "Redford">>, <<"MI", "Redford Township", "Redford">>,
     <<"MI", "Shelby Township", "Shelby">>, <<"MI", "Waterford Twp", "Waterford">>,
     <<"MI", "Waterford Twp.", "Waterford">>, <<"MI", "White Lake Township", "White Lake">>,
     <<"MI", "Wyoming, Mi", "Wyoming">>, <<"MI", "Battle Creek, Mi", "Battle Creek">>,
     <<"ND", "St. Michael", "St Michael">>, <<"ND", "Devils", "Devils Lake">>,
     <<"ND", "Devil's", "Devils Lake">>, <<"ND", "Devil's Lake", "Devils Lake">>,
     <<"ND", "Bismark", "Bismarck">>, <<"AK", "St. Michael", "Saint Michael">>,
     <<"AR", "De Valls Bluff", "DeValls Bluff">>, <<"AR", "De Witt", "DeWitt">>,
     <<"AR", "Dequeen", "De Queen">>, <<"AR", "Eldorado", "El Dorado">>,
     <<"AR", "Heber Spgs", "Heber Springs">>, <<"AR", "Jacksonsville", "Jacksonville">>,
     <<"AR", "Mammoth Springs", "Mammoth Spring">>, <<"AR", "Mc Crory", "McCrory">>,
     <<"AR", "N Little Rock", "North Little Rock">>,
     <<"AR", "N. Little Rock", "North Little Rock">>, <<"AR", "Baldknob", "Bald Knob">>,
     <<"AR", "St. Joe", "Saint Joe">>, <<"AR", "St. Paul", "Saint Paul">>,
     <<"TN", "Chattanoooga", "Chattanooga">>, <<"TN", "Moristown", "Morristown">>,
     <<"TN", "Lafollette", "La Follette">>, <<"TN", "Lavergne", "La Vergne">>,
     <<"TN", "Mc Ewen", "McEwen">>, <<"TN", "Mc Kenzie", "McKenzie">>,
     <<"TN", "Mt Juliet", "Mount Juliet">>, <<"TN", "Mt. Juliet", "Mount Juliet">>,
     <<"TN", "Mt Pleasant", "Mount Pleasant">>, <<"TN", "Mt. Pleasant", "Mount Pleasant">>,
     <<"TN", "Ootlewah", "Ooltewah">>, <<"TN", "S Pittsburg", "South Pittsburg">>,
     <<"TN", "Thompson's Station", "Thompsons Station">>, <<"TN", "St. Joseph", "Saint Joseph">>,
     <<"VT", "South", "South Burlington">>, <<"VT", "St. Albans", "Saint Albans">>,
     <<"VT", "St. Albans City", "Saint Albans">>, <<"VT", "St. Albans Town", "Saint Albans">>,
     <<"VT", "St. Johnsbury", "Saint Johnsbury">>,
     <<"VT", "White River Jct", "White River Junction">>, <<"OH", "St. Mary", "St. Marys">>,
     <<"OH", "Canal", "Canal Fulton">>, <<"OH", "Mentor On The", "Mentor-on-the-Lake">>,
     <<"OH", "Mentor On the", "Mentor-on-the-Lake">>, <<"OH", "Buckeye", "Buckeye Lake">>,
     <<"OH", "Upper", "Upper Arlington">>, <<"MO", "Saint Louis", "St. Louis">>,
     <<"MO", "St Louis", "St. Louis">>, <<"MO", "St Louis Park", "St. Louis">>,
     <<"MO", "St Peters", "St. Peters">>, <<"MO", "Lees", "Lee's Summit">>,
     <<"MO", "Lee's", "Lee's Summit">>, <<"MO", "Holts", "Holts Summit">>,
     <<"FL", "St Petersburg", "Saint Petersburg">>,
     <<"FL", "St. Petersburg", "Saint Petersburg">>,
     <<"FL", "St.Petersburg", "Saint Petersburg">>, <<"FL", "St Augustine", "Saint Augustine">>,
     <<"FL", "St. Augustine", "Saint Augustine">>, <<"FL", "St.Augustine", "Saint Augustine">>,
     <<"FL", "St. Augustine Beach", "Saint Augustine Beach">>,
     <<"FL", "St Augustine Beach", "Saint Augustine Beach">>, <<"FL", "St Cloud", "Saint Cloud">>,
     <<"FL", "St. Cloud", "Saint Cloud">>, <<"FL", "St. Pete Beach", "Saint Pete Beach">>,
     <<"FL", "St Pete Beach", "Saint Pete Beach">>, <<"FL", "St. Marks", "Saint Marks">>,
     <<"FL", "St Marks", "Saint Marks">>, <<"FL", "St. Johns", "Saint Johns">>,
     <<"FL", "St Johns", "Saint Johns">>, <<"FL", "St. John", "Saint Johns">>,
     <<"FL", "St. George Island", "Saint George Island">>,
     <<"FL", "St George Island", "Saint George Island">>,
     <<"FL", "St. James City", "Saint James City">>,
     <<"FL", "St James City", "Saint James City">>, <<"FL", "Ft Lauderdale", "Fort Lauderdale">>,
     <<"FL", "Ft. Lauderdale", "Fort Lauderdale">>, <<"FL", "Ft.Lauderdale", "Fort Lauderdale">>,
     <<"FL", "Ft Myers", "Fort Myers">>, <<"FL", "Ft. Myers", "Fort Myers">>,
     <<"FL", "Ft Pierce", "Fort Pierce">>, <<"FL", "Ft. Pierce", "Fort Pierce">>,
     <<"FL", "Ft Walton Beach", "Fort Walton Beach">>,
     <<"FL", "Ft. Walton Beach", "Fort Walton Beach">>,
     <<"FL", "Ft Walton Bch", "Fort Walton Beach">>,
     <<"FL", "N. Lauderdale", "North Lauderdale">>, <<"FL", "N Lauderdale", "North Lauderdale">>,
     <<"FL", "N. Miami", "North Miami">>, <<"FL", "N Miami", "North Miami">>,
     <<"FL", "N. Margate", "Margate">>, <<"FL", "W Palm Beach", "West Palm Beach">>,
     <<"FL", "Cheifland", "Chiefland">>, <<"FL", "Coral Spings", "Coral Springs">>,
     <<"FL", "Coral Spring", "Coral Springs">>, <<"FL", "Deerfield Bch", "Deerfield Beach">>,
     <<"FL", "Green Cove Spring", "Green Cove Springs">>,
     <<"FL", "Hallandale", "Hallandale Beach">>, <<"FL", "Jacksonsville", "Jacksonville">>,
     <<"FL", "Lake Worth", "Lake Worth Beach">>, <<"FL", "Satellite Bch", "Satellite Beach">>,
     <<"FL", "St. Petesburg", "Saint Petersburg">>, <<"FL", "Tavenier", "Tavernier">>,
     <<"FL", "Altamonte Spg", "Altamonte Springs">>,
     <<"FL", "Altamonte Spri Gs", "Altamonte Springs">>, <<"FL", "Mt Dora", "Mount Dora">>,
     <<"FL", "Deland", "DeLand">>, <<"FL", "De Land", "DeLand">>,
     <<"FL", "Defuniak Spg", "DeFuniak Springs">>,
     <<"FL", "Defuniak Springs", "DeFuniak Springs">>, <<"FL", "Fort", "Fort Myers">>,
     <<"FL", "West", "West Palm Beach">>, <<"FL", "Port", "Port St. Lucie">>,
     <<"FL", "Lady", "Lady Lake">>, <<"FL", "Royal", "Royal Palm Beach">>,
     <<"TX", "Dfw Airport", "Dallas">>, <<"TX", "DFW Airport", "Dallas">>,
     <<"MN", "St Paul", "Saint Paul">>, <<"MN", "St. Paul", "Saint Paul">>,
     <<"MN", "St.Paul", "Saint Paul">>, <<"MN", "Saint Louis", "Saint Louis Park">>,
     <<"MN", "St Louis Park", "Saint Louis Park">>,
     <<"MN", "St. Louis Park", "Saint Louis Park">>,
     <<"MN", "St.Louis Park", "Saint Louis Park">>, <<"MN", "Forest", "Forest Lake">>,
     <<"MN", "Prior", "Prior Lake">>, <<"MN", "Hutchinsonn", "Hutchinson">>,
     <<"MN", "Lesueur", "Le Sueur">>, <<"MN", "N St. Paul", "North Saint Paul">>,
     <<"MN", "North St. Paul", "North Saint Paul">>,
     <<"MN", "South St. Paul", "South Saint Paul">>, <<"MN", "W St. Paul", "West Saint Paul">>,
     <<"MN", "West St. Paul", "West Saint Paul">>,
     <<"MN", "Marine On St. Croix", "Marine on Saint Croix">>,
     <<"MN", "Lake St. Croix Beach", "Lake Saint Croix Beach">>,
     <<"MN", "St Cloud", "Saint Cloud">>, <<"MN", "St. Cloud", "Saint Cloud">>,
     <<"MN", "St. Anthony", "Saint Anthony">>, <<"MN", "St. Augusta", "Saint Augusta">>,
     <<"MN", "St. Bonifacius", "Saint Bonifacius">>, <<"MN", "St. Charles", "Saint Charles">>,
     <<"MN", "St. Clair", "Saint Clair">>, <<"MN", "St. Francis", "Saint Francis">>,
     <<"MN", "St. James", "Saint James">>, <<"MN", "St. Joseph", "Saint Joseph">>,
     <<"MN", "St. Michael", "Saint Michael">>, <<"MN", "St. Peter", "Saint Peter">>,
     <<"WA", "Walla", "Walla Walla">>, <<"WA", "Moses", "Moses Lake">>,
     <<"WA", "Bonney", "Bonney Lake">>, <<"WA", "Liberty", "Liberty Lake">>,
     <<"PA", "Clarks", "Clarks Summit">>, <<"PA", "West", "West Chester">>,
     <<"LA", "West", "West Monroe">>, <<"IN", "Fort", "Fort Wayne">>,
     <<"IN", "Ft Wayne", "Fort Wayne">>, <<"IN", "Ft. Wayne", "Fort Wayne">>,
     <<"IN", "Indianpolis", "Indianapolis">>, <<"IN", "Indianapollis", "Indianapolis">>,
     <<"IN", "Lacrosse", "La Crosse">>, <<"IN", "Lagrange", "LaGrange">>,
     <<"IN", "Laporte", "La Porte">>, <<"IN", "Mt. Vernon", "Mount Vernon">>,
     <<"IN", "N Manchester", "North Manchester">>, <<"IN", "Poratage", "Portage">>,
     <<"IN", "Rolling Prarie", "Rolling Prairie">>, <<"IN", "St. Anthony", "Saint Anthony">>,
     <<"IN", "St. John", "Saint John">>, <<"IN", "St.John", "Saint John">>,
     <<"IN", "St. Meinrad", "Saint Meinrad">>, <<"IN", "St. Paul", "Saint Paul">>,
     <<"IN", "W Lafayette", "West Lafayette">>, <<"IN", "W Terre Haute", "West Terre Haute">>,
     <<"IN", "Valparaiso,", "Valparaiso">>, <<"MS", "Horn", "Horn Lake">>,
     <<"MS", "Bay St. Louis", "Bay Saint Louis">>, <<"MS", "Diberville", "D'Iberville">>,
     <<"MS", "D'Iberville", "D'Iberville">>, <<"MS", "Dekalb", "DeKalb">>,
     <<"MS", "Luka", "Iuka">>, <<"MS", "Robinsville", "Robinsonville">>,
     <<"MS", "Southhaven", "Southaven">>, <<"WI", "Rice", "Rice Lake">>,
     <<"WI", "Camp", "Camp Douglas">>, <<"WI", "Paddock", "Paddock Lake">>,
     <<"WI", "De Forest", "DeForest">>, <<"WI", "Depere", "De Pere">>,
     <<"WI", "Fond Du Loc", "Fond du Lac">>, <<"WI", "Lacrosse", "La Crosse">>,
     <<"WI", "Mc Farland", "McFarland">>, <<"WI", "Milwakee", "Milwaukee">>,
     <<"WI", "Mt Horeb", "Mount Horeb">>, <<"WI", "S Beloit", "South Beloit">>,
     <<"WI", "St. Cloud", "Saint Cloud">>, <<"WI", "St. Croix Falls", "Saint Croix Falls">>,
     <<"WI", "St. Francis", "Saint Francis">>, <<"WI", "St. Germain", "Saint Germain">>,
     <<"WI", "Westbend", "West Bend">>, <<"WI", "Ashwaubenon,", "Ashwaubenon">>,
     <<"WI", "Oshkosh,", "Oshkosh">>, <<"IL", "Crystal", "Crystal Lake">>,
     <<"IL", "Island", "Island Lake">>, <<"IL", "Third", "Third Lake">>,
     <<"IL", "Wonder", "Wonder Lake">>, <<"IL", "Round", "Round Lake">>,
     <<"NJ", "Budd", "Budd Lake">>, <<"NJ", "East", "East Orange">>,
     <<"NJ", "West", "West Orange">>, <<"NJ", "North", "North Bergen">>,
     <<"WV", "South", "South Charleston">>, <<"CO", "Fort", "Fort Collins">>,
     <<"CO", "Ft Collins", "Fort Collins">>, <<"CO", "Bouler", "Boulder">>,
     <<"CO", "Colordao Spings", "Colorado Springs">>, <<"CO", "Dacano", "Dacono">>,
     <<"CO", "Debeque", "De Beque">>, <<"CO", "Lonetree", "Lone Tree">>,
     <<"KS", "Desoto", "De Soto">>, <<"KS", "Ft Leavenworth", "Fort Leavenworth">>,
     <<"KS", "Ft. Riley", "Fort Riley">>, <<"KS", "Ft. Scott", "Fort Scott">>,
     <<"KS", "Rosehill", "Rose Hill">>, <<"KS", "Springhill", "Spring Hill">>,
     <<"KS", "St. Francis", "Saint Francis">>, <<"KS", "St. John", "Saint John">>,
     <<"KS", "St. Marys", "Saint Marys">>, <<"KS", "St. Paul", "Saint Paul">>,
     <<"KS", "Wa Keeney", "WaKeeney">>, <<"KS", "Wichita.", "Wichita">>,
     <<"KY", "E Bernstadt", "East Bernstadt">>, <<"KY", "Erlinger", "Erlanger">>,
     <<"KY", "Florence,", "Florence">>, <<"KY", "Ft Knox", "Fort Knox">>,
     <<"KY", "Ft Mitchell", "Fort Mitchell">>, <<"KY", "Ft. Mitchell", "Fort Mitchell">>,
     <<"KY", "Ft Wright", "Fort Wright">>, <<"KY", "Ft.Campbell", "Fort Campbell">>,
     <<"KY", "La Center", "LaCenter">>, <<"KY", "Lagrange", "La Grange">>,
     <<"KY", "Middlesborough", "Middlesboro">>, <<"KY", "Mt Sterling", "Mount Sterling">>,
     <<"KY", "Mt. Sterling", "Mount Sterling">>, <<"KY", "Mt Washington", "Mount Washington">>,
     <<"KY", "Mt. Washington", "Mount Washington">>, <<"KY", "Smith's Grove", "Smiths Grove">>,
     <<"KY", "St. Charles", "Saint Charles">>, <<"KY", "St. Matthews", "Saint Matthews">>,
     <<"MD", "Fort", "Fort Washington">>, <<"MD", "Ft. Meade", "Fort Meade">>,
     <<"MD", "Ft. Washington", "Fort Washington">>, <<"MD", "Camp Spring", "Camp Springs">>,
     <<"MD", "Captiol Heights", "Capitol Heights">>, <<"MD", "Ellicot City", "Ellicott City">>,
     <<"MD", "Hyatsville", "Hyattsville">>, <<"MD", "Laplata", "La Plata">>,
     <<"MD", "Mc Henry", "McHenry">>, <<"MD", "Smithburg", "Smithsburg">>,
     <<"MD", "St. Leonard", "Saint Leonard">>, <<"MD", "St. Michaels", "Saint Michaels">>,
     <<"MD", "W Ocean City", "West Ocean City">>,
     <<"MD", "Prince Frederick,", "Prince Frederick">>, <<"MA", "Foxborough", "Foxboro">>,
     <<"MA", "Foxborough (Foxboro)", "Foxboro">>, <<"MA", "Lanesborough", "Lanesboro">>,
     <<"MA", "Marlborough", "Marlboro">>, <<"MA", "Middleborough", "Middleboro">>,
     <<"MA", "North Attleborough", "North Attleboro">>, <<"MA", "Northborough", "Northboro">>,
     <<"MA", "Plainvile", "Plainville">>, <<"MA", "Southborough", "Southboro">>,
     <<"MA", "Tyngsborough", "Tyngsboro">>, <<"MA", "Westborough", "Westboro">>,
     <<"MA", "Natick,", "Natick">>, <<"NC", "Spring", "Spring Lake">>,
     <<"NC", "W.T. Harris Blvd", "Charlotte">>, <<"IA", "Clear", "Clear Lake">>,
     <<"IA", "Clearlake", "Clear Lake">>, <<"IA", "Storm", "Storm Lake">>,
     <<"IA", "Spirit", "Spirit Lake">>, <<"IA", "Desoto", "De Soto">>,
     <<"IA", "Leclaire", "LeClaire">>, <<"IA", "Lemars", "Le Mars">>,
     <<"IA", "Mt Pleasant", "Mount Pleasant">>, <<"IA", "Mt. Vernon", "Mount Pleasant">>,
     <<"IA", "St Ansgar", "Saint Ansgar">>, <<"IA", "St. Ansgar", "Saint Ansgar">>,
     <<"IA", "St Charles", "Saint Charles">>, <<"IA", "St. Charles", "Saint Charles">>,
     <<"IA", "St Lucas", "Saint Lucas">>, <<"IA", "Lonetree", "Lone Tree">>,
     <<"CT", "West", "West Hartford">>, <<"CT", "East", "East Hartford">>,
     <<"UT", "St George", "Saint George">>, <<"UT", "St. George", "Saint George">>,
     <<"UT", "Laverkin", "LaVerkin">>, <<"UT", "Marriot-Slaterville", "Marriott-Slaterville">>,
     <<"UT", "Marriott Slaterville", "Marriott-Slaterville">>,
     <<"UT", "Mt. Pleasant", "Mount Pleasant">>, <<"UT", "S Salt Lake", "South Salt Lake">>,
     <<"UT", "Spanish Fork (Spanis", "Spanish Fork">>, <<"UT", "Washington City", "Washington">>,
     <<"UT", "West Valley Cit", "West Valley City">>, <<"NV", "N Las Vegas", "North Las Vegas">>,
     <<"NV", "South Lake Tahoe", "Lake Tahoe">>, <<"NH", "Center Conway", "Conway">>,
     <<"NH", "Center Ossipee", "Ossipee">>, <<"NH", "East Hampstead", "Hampstead">>,
     <<"NH", "North Conway", "Conway">>, <<"NH", "North Haverhill", "Haverhill">>,
     <<"NH", "North Swanzey", "Swanzey">>, <<"NH", "South Weare", "Weare">>,
     <<"NH", "West Chesterfield", "Chesterfield">>, <<"NH", "West Lebanon", "Lebanon">>,
     <<"NH", "West Ossipee", "Ossipee">>, <<"NH", "West Swanzey", "Swanzey">>,
     <<"WV", "Kanawha Ciy", "Kanawha City">>, <<"WV", "Mineralwells", "Mineral Wells">>,
     <<"WV", "Mt Hope", "Mount Hope">>, <<"WV", "Nutterfort", "Nutter Fort">>,
     <<"WV", "Phillipi", "Philippi">>, <<"WV", "S Charleston", "South Charleston">>,
     <<"WV", "Slatyfork", "Slatyfork">>, <<"WV", "St. Albans", "Saint Albans">>,
     <<"WV", "St. Mary's", "Saint Marys">>, <<"WV", "St. Marys", "Saint Marys">>,
     <<"WV", "White Hall", "Whitehall">>, <<"ME", "Augusta, Me", "Augusta">>,
     <<"ME", "N Berwick", "North Berwick">>, <<"ME", "N Waterboro", "North Waterboro">>,
     <<"ME", "St. Albans", "Saint Albans">>, <<"MT", "Big Fork", "Bigfork">>,
     <<"MT", "St. Ignatius", "Saint Ignatius">>, <<"MT", "St. Regis", "Saint Regis">>,
     <<"WY", "Casper (W)", "Casper">>, <<"WY", "Ft. Bridger", "Fort Bridger">>,
     <<"WY", "Laramie Wyoming", "Laramie">>, <<"WY", "Mt. View", "Mountain View">>,
     <<"RI", "E Providence", "East Providence">>, <<"RI", "N Smithfield", "North Smithfield">>,
     <<"NE", "Ft. Calhoun", "Fort Calhoun">>, <<"NE", "O Neill", "O'Neill">>,
     <<"NE", "St. Paul", "Saint Paul">>, <<"ON", "Scarborough", "Toronto">>,
     <<"ON", "North York", "Toronto">>, <<"ON", "Barrhaven", "Ottawa">>,
     <<"ON", "Orleans", "Ottawa">>, <<"ON", "Orléans", "Ottawa">>,
     <<"ON", "St Catharines", "St. Catharines">>, <<"ON", "Saint Catharines", "St. Catharines">>,
     <<"ON", "St Thomas", "St. Thomas">>, <<"ON", "Saint Thomas", "St. Thomas">>,
     <<"ON", "Sudbury", "Greater Sudbury">>, <<"ON", "Bradford", "Bradford West Gwillimbury">>,
     <<"ON", "Rockland", "Clarence-Rockland">>, <<"AB", "St Albert", "Saint Albert">>,
     <<"AB", "St. Albert", "Saint Albert">>, <<"AB", "St Paul", "Saint Paul">>,
     <<"AB", "St. Paul", "Saint Paul">>, <<"AB", "Lac La Biche", "Lac La Biche County">>,
     <<"AB", "Rocky View", "Rocky View County">>, <<"BC", "Westbank", "West Kelowna">>,
     <<"NL", "St. John's", "Saint John's">>, <<"NL", "St John's", "Saint John's">>,
     <<"NL", "St Johns", "Saint John's">>, <<"AL", "Madsion", "Madison">>,
     <<"AL", "Henager", "Henagar">>, <<"AL", "Hunstville", "Huntsville">>,
     <<"AL", "Bayou la Batre", "Bayou La Batre">>, <<"AL", "Bayou Labatre", "Bayou La Batre">>,
     <<"AL", "Dixon Mills", "Dixons Mills">>, <<"AL", "Eufala", "Eufaula">>,
     <<"AL", "Laceys Spring", "Lacey Springs">>, <<"AL", "Lakeview", "Lake View">>,
     <<"AL", "Montomery", "Montgomery">>, <<"AL", "Norhtport", "Northport">>,
     <<"AL", "Owens Crossroads", "Owens Cross Roads">>, <<"AL", "Pell", "Pell City">>,
     <<"AL", "Pleasant Groves", "Pleasant Grove">>, <<"AL", "Prattvile", "Prattville">>,
     <<"AL", "Pratville", "Prattville">>, <<"AL", "Rainesville", "Rainsville">>,
     <<"AL", "Saraland,", "Saraland">>, <<"AL", "Smith Station", "Smiths Station">>,
     <<"AL", "Tucaloosa", "Tuscaloosa">>, <<"AL", "test", "">>, <<"AL", "Test", "">>,
     <<"AL", "Ft. Novosel", "Fort Novosel">>, <<"AL", "Ft Novosel", "Fort Novosel">>,
     <<"AL", "G Hoover", "Hoover">>, <<"AL", "Mc Calla", "McCalla">>,
     <<"AL", "Town of Pike Road", "Pike Road">>, <<"AL", "Tuskegee Institute", "Tuskegee">>,
     <<"AL", "Pelham (Birmingham)", "Pelham">>, <<"LA", "Gonzalez", "Gonzales">>,
     <<"LA", "Barksdale Air Force Base", "Barksdale AFB">>, <<"LA", "Laplace", "LaPlace">>,
     <<"LA", "La place", "LaPlace">>, <<"GA", "Saint Simon's Island", "Saint Simons Island">>,
     <<"GA", "St. Simon's Island", "Saint Simons Island">>,
     <<"GA", "St Simons Is", "Saint Simons Island">>,
     <<"GA", "St. Simons", "Saint Simons Island">>,
     <<"GA", "Saint Simons", "Saint Simons Island">>, <<"GA", "Alpheretta", "Alpharetta">>,
     <<"GA", "Tocooa", "Toccoa">>, <<"GA", "Bryon", "Byron">>,
     <<"GA", "Warner Robbins", "Warner Robins">>, <<"GA", "Warner-Robins", "Warner Robins">>,
     <<"GA", "Carralton", "Carrollton">>, <<"GA", "Mc Caysville", "McCaysville">>,
     <<"GA", "Mc Rae", "McRae">>, <<"GA", "McRae Helena", "McRae-Helena">>,
     <<"GA", "St. Simons Island", "Saint Simons Island">>,
     <<"GA", "St Simons Island", "Saint Simons Island">>, <<"GA", "St. Mary", "St. Marys">>,
     <<"GA", "St Mary", "St. Marys">>, <<"GA", "Saint Mary", "St. Marys">>,
     <<"SC", "N Augusta", "North Augusta">>, <<"SC", "N. Augusta", "North Augusta">>,
     <<"SC", "Lady's Island", "Ladys Island">>, <<"NC", "Ashboro", "Asheboro">>,
     <<"NC", "Fuquay", "Fuquay-Varina">>, <<"NC", "Fort Mills", "Fort Mill">>,
     <<"NC", "Mt Pleasant", "Mount Pleasant">>, <<"NC", "Mt. Pleasant", "Mount Pleasant">>,
     <<"NC", "N Topsail Beach", "North Topsail Beach">>,
     <<"NC", "N. Topsail Beach", "North Topsail Beach">>,
     <<"NC", "Winston -Salem", "Winston-Salem">>, <<"NC", "Winston- Salem", "Winston-Salem">>,
     <<"NC", "Winston Salem", "Winston-Salem">>, <<"TX", "Bee Caves", "Bee Cave">>,
     <<"TX", "Deerpark", "Deer Park">>, <<"TX", "Gerogetown", "Georgetown">>,
     <<"TX", "Halletsville", "Hallettsville">>, <<"TX", "Kileen", "Killeen">>,
     <<"TX", "Leaque City", "League City">>, <<"TX", "Mt Belveiu", "Mont Belvieu">>,
     <<"TX", "Mt. Belvieu", "Mont Belvieu">>, <<"TX", "Mount Belveiu", "Mont Belvieu">>,
     <<"TX", "Prarie View", "Prairie View">>, <<"TX", "China Spring", "China Springs">>,
     <<"TX", "Van Veleck", "Van Vleck">>, <<"PA", "Dicksoncity", "Dickson City">>,
     <<"PA", "Jeanette", "Jeannette">>, <<"PA", "Emmaus", "Emmaus">>, <<"PA", "Emaus", "Emmaus">>,
     <<"PA", "E-town", "Elizabethtown">>, <<"PA", "E-Town", "Elizabethtown">>,
     <<"PA", "Mc Sherrystown", "McSherrystown">>, <<"PA", "N Versailles", "North Versailles">>,
     <<"PA", "N. Versailles", "North Versailles">>, <<"PA", "N Huntingdon", "North Huntingdon">>,
     <<"PA", "N. Huntingdon", "North Huntingdon">>,
     <<"PA", "Cranberry Twp", "Cranberry Township">>,
     <<"PA", "Cranberry Twp.", "Cranberry Township">>, <<"PA", "Ross Twp", "Ross Township">>,
     <<"PA", "Ross Twp.", "Ross Township">>, <<"PA", "Scott Twp", "Scott Township">>,
     <<"PA", "Scott Twp.", "Scott Township">>, <<"PA", "Hanover Twp", "Hanover Township">>,
     <<"PA", "Hanover Twp.", "Hanover Township">>, <<"PA", "Mt. Airy", "Mount Airy">>,
     <<"PA", "Mt. Penn", "Mount Penn">>, <<"NY", "Averne", "Arverne">>,
     <<"NY", "Brumswick", "Brunswick">>, <<"NY", "Castleton On", "Castleton-on-Hudson">>,
     <<"NY", "Castleton on", "Castleton-on-Hudson">>, <<"NY", "Croton", "Croton-on-Hudson">>,
     <<"NY", "Croton On", "Croton-on-Hudson">>, <<"NY", "Croton on", "Croton-on-Hudson">>,
     <<"NY", "E Meadow", "East Meadow">>, <<"NY", "E. Meadow", "East Meadow">>,
     <<"NY", "E Northport", "East Northport">>, <<"NY", "E. Northport", "East Northport">>,
     <<"NY", "Hasting", "Hastings-on-Hudson">>,
     <<"NY", "Port Jefferson Stati", "Port Jefferson Station">>,
     <<"NY", "Port Jefferson Stn", "Port Jefferson Station">>,
     <<"NY", "Rockville Ctr", "Rockville Centre">>,
     <<"NY", "Rockville Ctr.", "Rockville Centre">>,
     <<"NY", "S Farmingdale", "South Farmingdale">>,
     <<"NY", "S. Farmingdale", "South Farmingdale">>,
     <<"NY", "S Ozone Park", "South Ozone Park">>, <<"NY", "S. Ozone Park", "South Ozone Park">>,
     <<"NY", "S Richmond Hill", "South Richmond Hill">>,
     <<"NY", "S. Richmond Hill", "South Richmond Hill">>,
     <<"NY", "Saratoga Spgs", "Saratoga Springs">>,
     <<"NY", "Saratoga Spgs.", "Saratoga Springs">>,
     <<"NY", "Wappinger Falls", "Wappingers Falls">>, <<"NY", "Wyndanch", "Wyandanch">>,
     <<"NY", "NYC", "New York">>, <<"NY", "Nyc", "New York">>,
     <<"NJ", "E Brunswick", "East Brunswick">>, <<"NJ", "E. Brunswick", "East Brunswick">>,
     <<"NJ", "E Rutherford", "East Rutherford">>, <<"NJ", "E. Rutherford", "East Rutherford">>,
     <<"NJ", "E Windsor", "East Windsor">>, <<"NJ", "E. Windsor", "East Windsor">>,
     <<"NJ", "N Brunswick", "North Brunswick">>, <<"NJ", "N. Brunswick", "North Brunswick">>,
     <<"NJ", "Kearney", "Kearny">>, <<"NJ", "Passiac", "Passaic">>,
     <<"NJ", "Princeton Jct", "Princeton Junction">>,
     <<"NJ", "Princeton Jct.", "Princeton Junction">>, <<"NJ", "Saddlebrook", "Saddle Brook">>,
     <<"NJ", "West Patterson", "West Paterson">>, <<"NJ", "Woodcliff", "Woodcliff Lake">>,
     <<"NJ", "Egg Hbr Twp", "Egg Harbor Township">>,
     <<"NJ", "Egg Harbor Twsp", "Egg Harbor Township">>,
     <<"NJ", "Egg Harbor Twsp.", "Egg Harbor Township">>,
     <<"NJ", "Mt Laurel Twp", "Mount Laurel Township">>,
     <<"NJ", "Mt Laurel Township", "Mount Laurel Township">>,
     <<"NJ", "Mt. Laurel Township", "Mount Laurel Township">>,
     <<"NJ", "Green Brook Twp", "Green Brook Township">>,
     <<"NJ", "Green Brook Twp.", "Green Brook Township">>,
     <<"NJ", "Ocean Twp", "Ocean Township">>, <<"NJ", "Ocean Twp.", "Ocean Township">>,
     <<"NJ", "Monroe Twp", "Monroe Township">>, <<"NJ", "Monroe Twp.", "Monroe Township">>,
     <<"NJ", "Hamilton Twp", "Hamilton Township">>,
     <<"NJ", "Hamilton Twp.", "Hamilton Township">>, <<"NJ", "Ewing Twp", "Ewing Township">>,
     <<"NJ", "Ewing Twp.", "Ewing Township">>, <<"NJ", "Evesham Twp", "Evesham Township">>,
     <<"NJ", "Evesham Twp.", "Evesham Township">>, <<"NJ", "Hazlet Twsp", "Hazlet Township">>,
     <<"NJ", "Hazlet Twsp.", "Hazlet Township">>, <<"CT", "W Hartford", "West Hartford">>,
     <<"CT", "W. Hartford", "West Hartford">>, <<"CT", "Stafford Springs", "Stafford">>,
     <<"CT", "Mansfield Center", "Mansfield">>, <<"CT", "Pomfret Center", "Pomfret">>,
     <<"CT", "Killingworth Village", "Killingworth">>, <<"CT", "Woodstock Valley", "Woodstock">>,
     <<"MO", "Lee Summit", "Lee's Summit">>, <<"MO", "Lees Summit", "Lee's Summit">>,
     <<"MO", "St.Louis", "St. Louis">>, <<"MO", "St.louis", "St. Louis">>,
     <<"OH", "Beford", "Bedford">>, <<"OH", "Beaver Creek", "Beavercreek">>,
     <<"OH", "Beaver Dam", "Beaverdam">>, <<"OH", "E Liverpool", "East Liverpool">>,
     <<"OH", "E. Liverpool", "East Liverpool">>, <<"OH", "Maysvile", "Maysville">>,
     <<"OH", "Mt Orab", "Mount Orab">>, <<"OH", "Mt. Orab", "Mount Orab">>,
     <<"OH", "Mt Eaton", "Mount Eaton">>, <<"OH", "Mt. Eaton", "Mount Eaton">>,
     <<"OH", "Mt Vernon", "Mount Vernon">>, <<"OH", "Mt.Vernon", "Mount Vernon">>,
     <<"OH", "Mt. Vernon", "Mount Vernon">>, <<"OH", "W Alexandria", "West Alexandria">>,
     <<"OH", "W. Alexandria", "West Alexandria">>,
     <<"OH", "Washington Ct. House", "Washington Court House">>,
     <<"OH", "Washington Ct House", "Washington Court House">>,
     <<"OH", "Washington Court Hou", "Washington Court House">>,
     <<"OH", "West Chester Twp", "West Chester Township">>,
     <<"OH", "West Chester Twp.", "West Chester Township">>,
     <<"OH", "Sylvania Twp", "Sylvania Township">>,
     <<"OH", "Sylvania Twp.", "Sylvania Township">>,
     <<"OH", "Washington Twp", "Washington Township">>,
     <<"OH", "Washington Twp.", "Washington Township">>,
     <<"OH", "Brookfield Twp", "Brookfield Township">>,
     <<"OH", "Brookfield Twp.", "Brookfield Township">>, <<"OR", "Milwaukee", "Milwaukie">>,
     <<"WA", "E.Wenatchee", "East Wenatchee">>, <<"WA", "E. Wenatchee", "East Wenatchee">>,
     <<"WA", "E Wenatchee", "East Wenatchee">>, <<"WA", "Lynwood", "Lynnwood">>,
     <<"WA", "Mt.Vernon", "Mount Vernon">>, <<"WA", "Mt. Vernon", "Mount Vernon">>,
     <<"WA", "Mt Vernon", "Mount Vernon">>, <<"WA", "Spokane City", "Spokane">>,
     <<"QC", "Montreal", "Montréal">>, <<"QC", "Quebec", "Québec">>, <<"QC", "Levis", "Lévis">>,
     <<"QC", "St-Eustache", "Saint-Eustache">>, <<"QC", "St. Eustache", "Saint-Eustache">>,
     <<"QC", "St Eustache", "Saint-Eustache">>,
     <<"QC", "Saint-Bruno", "Saint-Bruno-de-Montarville">>,
     <<"QC", "St-Bruno", "Saint-Bruno-de-Montarville">>,
     <<"QC", "St. Bruno", "Saint-Bruno-de-Montarville">>, <<"QC", "Lasalle", "Montréal">>,
     <<"QC", "La Salle", "Montréal">>, <<"QC", "LaSalle", "Montréal">>,
     <<"QC", "Beauport", "Québec">>, <<"QC", "Sainte-Foy", "Québec">> >>
(***************************************************************************)
(* extract-brand.js: cleanCity                                             *)
(***************************************************************************)
\* the least element of a non-empty set of integers
MinOf(S) == CHOOSE i \in S : \A j \in S : i <= j

REPEATED_WORD_LOWER == LowerSet(REPEATED_WORD_CITIES)
PROTECTED_LOWER == LowerSet(PROTECTED_CITIES)
SUMMIT_LOWER == LowerSet(SUMMIT_CITIES)

\* "City City" collapses to "City", unless it is a legitimate repeated-word city
collapseRepeated(city) ==
  LET words == split(city, " ")
      half == Len(words) \div 2
      firstHalf == join(SubSeq(words, 1, half), " ")
      secondHalf == join(SubSeq(words, half + 1, Len(words)), " ")
  IN  IF /\ Len(words) >= 2
         /\ toLowerCase(firstHalf) = toLowerCase(secondHalf)
         /\ toLowerCase(city) \notin REPEATED_WORD_LOWER
      THEN firstHalf
      ELSE city

\* LIST.some(p => p.toLowerCase() === city.toLowerCase()) for the two lists
isProtected(city) ==
  toLowerCase(city) \in PROTECTED_LOWER \/ toLowerCase(city) \in SUMMIT_LOWER

\* One pattern character of new RegExp(`\\s+${county}$`, 'i') against one character:
\* the county name is not escaped, so its "." matches any character.
PatternCharMatches(p, c) == IF p = "." THEN c # "\n" ELSE toLowerChar(p) = toLowerChar(c)

\* new RegExp(`\\s+${county}$`, 'i').test(city)
CountyRegexTest(city, county) ==
  LET n == Len(city)
      m == Len(county)
  IN  /\ n > m
      /\ \A j \in 1..m : PatternCharMatches(Ch(county, j), Ch(city, n - m + j))
      /\ SpaceRunBack(city, n - m) >= 1

\* city.replace(regex, '').trim() for a county whose regex matches
StripCounty(city, county) ==
  LET n == Len(city)
      m == Len(county)
  IN  trim(SubSeq(city, 1, n - m - SpaceRunBack(city, n - m)))

\* the loop over COUNTY_NAMES without the test of the length of what is left
stripTrailingCountyOfAnyLength(city) ==
  LET hits == {i \in 1..Len(COUNTY_NAMES) : CountyRegexTest(city, COUNTY_NAMES[i])}
  IN  IF isProtected(city) \/ hits = {} THEN city
      ELSE LET stripped == StripCounty(city, COUNTY_NAMES[MinOf(hits)])
               isInvalidSingle == toLowerCase(stripped) \in SeqToSet(INVALID_SINGLE_WORDS)
           IN  IF ~isInvalidSingle THEN stripped ELSE city

\* the loop over COUNTY_NAMES: the first county that matches decides, then break
stripTrailingCounty(city) ==
  LET hits == {i \in 1..Len(COUNTY_NAMES) : CountyRegexTest(city, COUNTY_NAMES[i])}
  IN  IF isProtected(city) \/ hits = {} THEN city
      ELSE LET stripped == StripCounty(city, COUNTY_NAMES[MinOf(hits)])
               isInvalidSingle == toLowerCase(stripped) \in SeqToSet(INVALID_SINGLE_WORDS)
           IN  IF Len(stripped) >= 4 /\ ~isInvalidSingle THEN stripped ELSE city

AllDigits(s) == \A i \in 1..Len(s) : IsDigit(Ch(s, i))
AllUpper(s) == \A i \in 1..Len(s) : IsUpper(Ch(s, i))

\* city.replace(/\s+[A-Z]{2}$/, ''), on the first e characters of city
StripStateBefore(city, e) ==
  LET k == SpaceRunBack(city, e - 2)
  IN  IF e >= 3 /\ AllUpper(SubSeq(city, e - 1, e)) /\ k >= 1
      THEN SubSeq(city, 1, e - 2 - k)
      ELSE city

stripTrailingState(city) == StripStateBefore(city, Len(city))

\* city.replace(/\s+[A-Z]{2}\s*\d{5}(-\d{4})?$/, '')
stripTrailingStateZip(city) ==
  LET n == Len(city)
      plus4 == n >= 5 /\ Ch(city, n - 4) = "-" /\ AllDigits(SubSeq(city, n - 3, n))
      z == IF plus4 THEN n - 5 ELSE n
      zip5 == z >= 5 /\ AllDigits(SubSeq(city, z - 4, z))
      e == z - 5 - SpaceRunBack(city, z - 5)
  IN  IF zip5 /\ StripStateBefore(city, e) # city THEN StripStateBefore(city, e) ELSE city

\* city.replace(/\s+(Mass|USA|US)$/i, '')
stripNoiseSuffix(city) ==
  LET n == Len(city)
      hits == {w \in {"mass", "usa", "us"} :
                 /\ n > Len(w)
                 /\ toLowerCase(SubSeq(city, n - Len(w) + 1, n)) = w
                 /\ SpaceRunBack(city, n - Len(w)) >= 1}
  IN  IF hits = {} THEN city
      ELSE LET w == CHOOSE x \in hits : TRUE
           IN  SubSeq(city, 1, n - Len(w) - SpaceRunBack(city, n - Len(w)))

cleanCity(city) ==
  IF city = "" THEN ""
  ELSE trim(stripNoiseSuffix(stripTrailingState(stripTrailingStateZip(
         stripTrailingCounty(collapseRepeated(city))))))

(***************************************************************************)
(* extract-brand.js: applyCityAlias and normalizeCity                      *)
(***************************************************************************)
\* An entry of city-name-aliases.json: null, or the canonical city.
NullAlias == [null |-> TRUE, city |-> ""]
AliasTo(c) == [null |-> FALSE, city |-> c]

\* applyCityAlias without its null case: a null entry leaves the city as it is
applyCityAliasKeepingNull(aliases, city, state) ==
  IF city = "" \/ state = "" THEN city
  ELSE IF state \notin DOMAIN aliases THEN city
  ELSE IF city \notin DOMAIN aliases[state] THEN city
  ELSE IF aliases[state][city].city # "" THEN aliases[state][city].city
  ELSE city

\* aliases: state -> (city -> entry), the parsed city-name-aliases.json ({} when the
\* file cannot be read)
applyCityAlias(aliases, city, state) ==
  IF city = "" \/ state = "" THEN city
  ELSE IF state \notin DOMAIN aliases THEN city
  ELSE IF city \notin DOMAIN aliases[state] THEN city
  ELSE IF aliases[state][city].null THEN ""
  ELSE IF aliases[state][city].city # "" THEN aliases[state][city].city
  ELSE city

\* s.replace(/\b\w/g, c => c.toUpperCase()), and also
\* s.replace(/\b([a-z])(\w*)/g, (m, first, rest) => first.toUpperCase() + rest):
\* both upper-case the first character of every word and nothing else.
RECURSIVE CapitalizeFrom(_, _)
CapitalizeFrom(s, i) ==
  IF i > Len(s) THEN ""
  ELSE (IF WordStartAt(s, i) THEN toUpperChar(Ch(s, i)) ELSE Ch(s, i)) \o CapitalizeFrom(s, i + 1)

capitalizeWords(s) == CapitalizeFrom(s, 1)

\* ALL CAPS or all lowercase, longer than 2: to Title Case
titleCase(city) ==
  IF (city = toUpperCase(city) \/ city = toLowerCase(city)) /\ Len(city) > 2
  THEN capitalizeWords(toLowerCase(city))
  ELSE city

\* city.replace(/\bMc([a-z])/g, (m, letter) => 'Mc' + letter.toUpperCase())
RECURSIVE FixMcFrom(_, _)
FixMcFrom(s, i) ==
  IF i > Len(s) THEN ""
  ELSE (IF i >= 3 /\ WordStartAt(s, i - 2) /\ SubSeq(s, i - 2, i - 1) = "Mc" /\ IsLower(Ch(s, i))
        THEN toUpperChar(Ch(s, i))
        ELSE Ch(s, i)) \o FixMcFrom(s, i + 1)

fixMc(city) == FixMcFrom(city, 1)

\* Lines 487-501: the case repair.  The three replaces of /\bLa([A-Z])/g, /\bLe([A-Z])/g
\* and /\bDe([A-Z])/g put back exactly what they matched, so they change nothing.
caseRepair(city) == fixMc(capitalizeWords(titleCase(city)))

\* city.replace(/\bSaint\s+/gi, 'St. ')
RECURSIVE SaintFrom(_, _)
SaintFrom(s, i) ==
  IF i > Len(s) THEN ""
  ELSE IF /\ WordStartAt(s, i)
          /\ i + 4 <= Len(s)
          /\ toLowerCase(SubSeq(s, i, i + 4)) = "saint"
          /\ SpaceRun(s, i + 5) >= 1
       THEN "St. " \o SaintFrom(s, i + 5 + SpaceRun(s, i + 5))
       ELSE Ch(s, i) \o SaintFrom(s, i + 1)

\* city.replace(/\bSt\s+(?=[A-Z])/g, 'St. ')
RECURSIVE StFrom(_, _)
StFrom(s, i) ==
  IF i > Len(s) THEN ""
  ELSE IF /\ WordStartAt(s, i)
          /\ i + 1 <= Len(s)
          /\ SubSeq(s, i, i + 1) = "St"
          /\ SpaceRun(s, i + 2) >= 1
          /\ i + 2 + SpaceRun(s, i + 2) <= Len(s)
          /\ IsUpper(Ch(s, i + 2 + SpaceRun(s, i + 2)))
       THEN "St. " \o StFrom(s, i + 2 + SpaceRun(s, i + 2))
       ELSE Ch(s, i) \o StFrom(s, i + 1)

\* city.replace(/(.)\bW\b/gi, (m, before) => before + w) for a two-letter word w
\* ("du", "of"): the word, in any case, after a non-word character
RECURSIVE LowerWordFrom(_, _, _)
LowerWordFrom(s, w, i) ==
  IF i > Len(s) THEN ""
  ELSE IF /\ Ch(s, i) # "\n"
          /\ ~IsWord(Ch(s, i))
          /\ i + 2 <= Len(s)
          /\ toLowerCase(SubSeq(s, i + 1, i + 2)) = w
          /\ WordEndAt(s, i + 2)
       THEN Ch(s, i) \o w \o LowerWordFrom(s, w, i + 3)
       ELSE Ch(s, i) \o LowerWordFrom(s, w, i + 1)

\* Lines 507-524: Saint -> St., St -> St., mid-name du/of, hyphenated connectors
formalTitle(city) ==
  LET a == StFrom(SaintFrom(city, 1), 1)
      b == LowerWordFrom(LowerWordFrom(a, "du", 1), "of", 1)
  IN  replaceAll(replaceAll(replaceAll(replaceAll(replaceAll(replaceAll(b,
        "-By-", "-by-"), "-The-", "-the-"), "-On-", "-on-"), "-In-", "-in-"),
        "-Of-", "-of-"), "-At-", "-at-")

\* Lines 526-1274: the first per-state rule, in source order, that matches
overrideHits(city, state) ==
  {i \in 1..Len(STATE_OVERRIDES) : STATE_OVERRIDES[i][1] = state /\ STATE_OVERRIDES[i][2] = city}

\* The one rule that is not an exact match (DC has no other rule).
dcHotelRule(city, state) == state = "DC" /\ startsWith(city, "Thompson Washington")

\* /^X\.?\s+/ for a one-letter direction X: the length of the match, 0 when there is none
DirectionPrefixLen(city, x) ==
  LET dot == IF Len(city) >= 2 /\ Ch(city, 2) = "." THEN 1 ELSE 0
      k == SpaceRun(city, 2 + dot)
  IN  IF startsWith(city, x) /\ k >= 1 THEN 1 + dot + k ELSE 0

expandDirection(city, x, word) ==
  IF DirectionPrefixLen(city, x) > 0
  THEN word \o " " \o substring(city, DirectionPrefixLen(city, x))
  ELSE city

\* /\sABBRs?$/i -> ' Word' for ABBR "Hgt", "Spg"
expandSuffix(city, abbr, word) ==
  LET n == Len(city)
      withS == n >= 1 /\ toLowerChar(Ch(city, n)) = "s"
      m == IF withS /\ n > Len(abbr) + 1
                /\ toLowerCase(SubSeq(city, n - Len(abbr), n - 1)) = toLowerCase(abbr)
                /\ IsSpace(Ch(city, n - Len(abbr) - 1))
           THEN Len(abbr) + 1
           ELSE IF n > Len(abbr)
                   /\ toLowerCase(SubSeq(city, n - Len(abbr) + 1, n)) = toLowerCase(abbr)
                   /\ IsSpace(Ch(city, n - Len(abbr)))
           THEN Len(abbr)
           ELSE 0
  IN  IF m > 0 THEN SubSeq(city, 1, n - m - 1) \o " " \o word ELSE city

\* if (city.match(/^Mc /)) city = 'Mc' + city.substring(3)
joinMc(city) == IF startsWith(city, "Mc ") THEN "Mc" \o substring(city, 3) ELSE city

\* if (city.match(/^Ft\s+/)) city = 'Fort' + city.substring(2);
\* if (city.match(/^Ft\.\s*/)) city = 'Fort ' + city.substring(city.indexOf('.') + 1).trim();
\* (and the same for Mt -> Mount): abbr is "Ft" or "Mt"
expandPrefix(city, abbr, word) ==
  LET a == IF startsWith(city, abbr) /\ SpaceRun(city, 3) >= 1
           THEN word \o substring(city, 2)
           ELSE city
  IN  IF startsWith(a, abbr \o ".")
      THEN word \o " " \o trim(substring(a, indexOf(a, ".") + 1))
      ELSE a

\* if (city.match(/^Forth\s+/)) city = 'Fort' + city.substring(5)
fixForth(city) ==
  IF startsWith(city, "Forth") /\ SpaceRun(city, 6) >= 1 THEN "Fort" \o substring(city, 5) ELSE city

\* city.replace(/ Ciy$/, ' City') then city.replace(/ Cty$/, ' City')
fixCity(city) ==
  LET a == IF endsWith(city, " Ciy") THEN SubSeq(city, 1, Len(city) - 4) \o " City" ELSE city
  IN  IF endsWith(a, " Cty") THEN SubSeq(a, 1, Len(a) - 4) \o " City" ELSE a

\* Lines 1317-1345: the multi-state typo dictionary, <<typo, city>>
COMMON_TYPOS ==
  << <<"Albuquereque", "Albuquerque">>, <<"Indianpolis", "Indianapolis">>,
     <<"Jacksonsville", "Jacksonville">>, <<"Mineapolis", "Minneapolis">>,
     <<"Milwakee", "Milwaukee">>, <<"Milwauke", "Milwaukee">>, <<"Nashvill", "Nashville">>,
     <<"Pheonix", "Phoenix">>, <<"Queens Creek", "Queen Creek">>,
     <<"Alpheretta", "Alpharetta">>, <<"Chattanoooga", "Chattanooga">>,
     <<"Milsboro", "Millsboro">>, <<"Belle Chase", "Belle Chasse">>,
     <<"Hyatsville", "Hyattsville">>, <<"Rulleville", "Ruleville">>,
     <<"Pfaftown", "Pfafftown">>, <<"Bayone", "Bayonne">>, <<"Hewlet", "Hewlett">>,
     <<"Halstead", "Hallstead">>, <<"Hallsted", "Hallstead">>,
     <<"Bennetsville", "Bennettsville">>, <<"Murells Inlet", "Murrells Inlet">>,
     <<"Moristown", "Morristown">>, <<"Carollton", "Carrollton">>, <<"Jarrel", "Jarrell">>,
     <<"Creedmor", "Creedmoor">>, <<"Mezeppa", "Mazeppa">>, <<"Hohokus", "Ho-Ho-Kus">>,
     <<"Frankinton", "Franklinton">> >>

typoHits(city) == {i \in 1..Len(COMMON_TYPOS) : COMMON_TYPOS[i][1] = city}

\* if (city.endsWith('vile') && !city.endsWith('ville')) city = city.slice(0, -4) + 'ville'
fixVile(city) ==
  IF endsWith(city, "vile") /\ ~endsWith(city, "ville")
  THEN SubSeq(city, 1, Len(city) - 4) \o "ville"
  ELSE city

\* Lines 1276-1288: directional prefixes, Hgts/Spgs, "Mc "
generalAbbreviations(city) ==
  LET d == expandDirection(expandDirection(expandDirection(expandDirection(city,
             "E", "East"), "N", "North"), "S", "South"), "W", "West")
  IN  joinMc(expandSuffix(expandSuffix(d, "Hgt", "Heights"), "Spg", "Springs"))

\* Lines 1276-1352: the general rules, applied to a city no per-state rule returned
generalRules(city) ==
  LET a == generalAbbreviations(city)
      b == fixCity(expandPrefix(fixForth(expandPrefix(a, "Ft", "Fort")), "Mt", "Mount"))
  IN  IF a = "O Fallon" THEN "O'Fallon"
      ELSE IF a = "O Neill" THEN "O'Neill"
      ELSE IF a = "D Iberville" THEN "D'Iberville"
      ELSE IF a \in {"Coeur D Alene", "Coeur D' Alene", "Coeur dAlene", "Coeur d'Alene"}
      THEN "Coeur d'Alene"
      ELSE IF typoHits(b) # {} THEN COMMON_TYPOS[MinOf(typoHits(b))][2]
      ELSE fixVile(b)

normalizeCity(aliases, city, state) ==
  IF city = "" THEN ""
  ELSE LET aliased == applyCityAlias(aliases, caseRepair(city), state)
           formal == formalTitle(aliased)
       IN  IF aliased = "" THEN ""
           ELSE IF overrideHits(formal, state) # {}
           THEN STATE_OVERRIDES[MinOf(overrideHits(formal, state))][3]
           ELSE IF dcHotelRule(formal, state) THEN "Washington"
           ELSE generalRules(formal)

(***************************************************************************)
(* The state                                                               *)
(***************************************************************************)
VARIABLES
  cityAliases,     \* extract-brand.js: the parsed city-name-aliases.json
  zipcodeToCity,   \* extract-brand.js: ZIP code -> city, loaded from us-zipcodes.csv
  zipcodeToState,  \* extract-brand.js: ZIP code -> state
  boundaries,      \* validate-state-boundaries.js: <<abbrev, box>> in insertion order
  validCities,     \* validate-cities.js: the keys `city|state` of the known cities
  argv,            \* the extractor's command line
  script,          \* which extractor runs: "atp", "osm", or "none"
  pc,              \* where the extractor is
  input,           \* data.features (AllThePlaces) or data.elements (OpenStreetMap)
  locations,       \* the extractor's locations array
  workers,         \* the extractor runs that go on side by side, one record each
  batch,           \* re-extract-all: the driver's mapping, loop position and counters
  brandFiles,      \* brands/<key>.json: brand key -> collection
  manifest,        \* manifest.json
  stateErrors,     \* state_errors.txt, the boundary validator's report
  badLocations,    \* bad_locations.txt, the city validator's report
  hCity,           \* normalizer harness: the current city string
  hState,          \* normalizer harness: the state passed to normalizeCity
  hStage,          \* normalizer harness: which calls have been made
  hInput,          \* normalizer harness: the argument of the last call of a step
  hFirst           \* normalizer harness: the result of the first clean-then-normalize pass

refVars == <<cityAliases, zipcodeToCity, zipcodeToState, boundaries, validCities>>
runVars == <<argv, script, pc, input, locations, workers, batch>>
fileVars == <<brandFiles, manifest>>
reportVars == <<stateErrors, badLocations>>
harnessVars == <<hCity, hState, hStage, hInput, hFirst>>
vars == <<refVars, runVars, fileVars, reportVars, harnessVars>>

\* re-extract-all has not been started
NoBatch ==
  [pc |-> "none", mapping |-> <<>>, working |-> {}, allBrands |-> <<>>, brand |-> 0,
   variant |-> 0, success |-> 0, failed |-> 0, failures |-> <<>>, tried |-> <<>>]

\* an empty JavaScript object / Map
EmptyMap == [k \in {} |-> ""]
\* a report file that has not been written
NoReport == [written |-> FALSE, lines |-> <<>>]
\* manifest.json before a run
EmptyManifest == [brands |-> <<>>, generated |-> 0]
\* no alias file (cityAliases stays {})
NoAliases == [st \in {} |-> EmptyMap]

\* validate-cities.js EXTRA_VALID_CITIES, <<state, cities>>: where the object literal
\* repeats a state, the later list is the one that counts
EXTRA_VALID_CITIES ==
  << <<"NY", <<"New York City", "The Bronx", "Queens", "Brooklyn", "Staten Island",
             "Long Island City", "Elmhurst", "Flushing", "Jamaica", "Astoria", "Woodside",
             "Jackson Heights", "Corona", "Rego Park", "Forest Hills", "Bayside",
             "Fresh Meadows", "Whitestone", "College Point", "Ridgewood", "Maspeth",
             "Middle Village", "Glendale", "Woodhaven", "Ozone Park", "Howard Beach",
             "Richmond Hill", "Kew Gardens", "Sunnyside", "Far Rockaway", "Arverne",
             "Rockaway Park", "Belle Harbor", "Breezy Point", "Glenville", "Manhattan",
             "Malta", "Farmington", "Dewitt", "Halfmoon", "East Amherst",
             "South Richmond Hill">> >>,
     <<"CA", <<"Hollywood", "Pacoima", "Ventura", "City of Industry", "Van Nuys",
             "North Hollywood", "Sherman Oaks", "Encino", "Tarzana", "Woodland Hills",
             "Canoga Park", "Northridge", "Granada Hills", "Sylmar", "Sun Valley",
             "Panorama City", "Reseda", "Winnetka", "Chatsworth", "Porter Ranch",
             "Lake Balboa", "Valley Village", "Studio City", "Sunland", "Camp Pendleton",
             "Saugus", "La Canada Flintridge", "La Canada", "West Los Angeles",
             "Pacific Palisades", "Westchester", "Highland Park", "Greenbrae", "Anaheim Hills",
             "North Palm Springs", "Agoura">> >>,
     <<"TX", <<"Kingwood", "Ft. Worth", "Ft Worth", "Lacy Lakeview">> >>,
     <<"MA", <<"Hyannis", "Centerville", "Osterville", "Cotuit", "Marstons Mills",
             "West Barnstable", "Chelmsford", "Dartmouth", "Westford", "Chestnut Hill",
             "South Attleboro">> >>,
     <<"VA", <<"Henrico", "North Chesterfield", "Gloucester", "Bristow", "Spotsylvania",
             "Zion Crossroads", "North Tazewell">> >>,
     <<"CT", <<"Stratford", "Vernon", "Lisbon", "Willington", "Milldale">> >>,
     <<"FL", <<"St. Johns", "Ft. Lauderdale", "Ft Lauderdale", "Ft. Myers", "Ft Myers", "Viera",
             "Ponte Vedra Beach", "Ponte Vedra", "Clearwater Beach", "University Park",
             "Pensacola Beach">> >>,
     <<"MO", <<"O'Fallon", "O Fallon", "St. Louis Downtown", "Sainte Genevieve",
             "Ste. Genevieve">> >>,
     <<"IL", <<"O Fallon", "O'Fallon", "Lake In The Hills", "Mt Vernon", "Mt. Vernon",
             "Mt Prospect", "Mt. Prospect">> >>,
     <<"NJ", <<"Pennsauken", "Egg Harbor Township", "East Windsor", "Neptune", "Middletown",
             "Ewing", "Delran", "Medford", "Mount Holly", "Galloway", "Westampton",
             "Little Falls", "West Deptford", "Branchburg", "Robbinsville", "Rochelle Park",
             "Mt. Laurel", "Mt Laurel", "Lawrence Township", "Cape May Court House">> >>,
     <<"SC", <<"Indian Land", "Mt Pleasant", "Mt. Pleasant", "Mount Pleasant", "Hilton Head",
             "Hilton Head Island">> >>,
     <<"MI", <<"Clarkston", "Commerce Township", "Sault Sainte Marie", "Sault Ste. Marie",
             "Sault Ste Marie", "Brownstown", "Mt. Pleasant", "Shelby Twp", "Shelby Township">> >>,
     <<"RI", <<"Johnston", "North Providence", "Wakefield", "South Kingstown">> >>,
     <<"OH", <<"Liberty Township", "Mt. Vernon", "Mt Vernon", "Mount Vernon">> >>,
     <<"MN", <<"White Bear", "White Bear Lake", "St. Anthony">> >>,
     <<"PR", <<"San Juan", "Bayamon", "Carolina", "Ponce", "Caguas", "Guaynabo", "Mayaguez",
             "Arecibo", "Fajardo", "Humacao">> >>,
     <<"GA", <<"Ellenwood", "St. Simons Island", "St Simons Island", "Fort Benning">> >>,
     <<"MS", <<"Diberville", "D'Iberville">> >>,
     <<"PA", <<"Moon Township", "Hazle Township", "Huntingdon Valley", "Feasterville Trevose",
             "Feasterville-Trevose", "Abington", "East Norriton", "Southampton", "Essington",
             "Coal Township">> >>,
     <<"TN", <<"Mt. Juliet", "Mt Juliet", "Mount Juliet", "Mc Minnville", "McMinnville">> >>,
     <<"MD", <<"Hunt Valley", "Lavale", "LaVale", "Windsor Mill", "Finksburg">> >>,
     <<"CO", <<"Falcon", "Ft. Collins", "Ft Collins", "Fort Collins">> >>,
     <<"UT", <<"West Valley", "West Valley City", "Lake Point", "Spanish Fork">> >>,
     <<"WI", <<"Grand Chute">> >>,
     <<"HI", <<"Kailua-Kona", "Kailua Kona">> >>,
     <<"WV", <<"Mineral Wells", "Berkeley Springs">> >>,
     <<"WA", <<"Tulalip">> >>,
     <<"NC", <<"Supply">> >>,
     <<"VT", <<"Berlin">> >>,
     <<"ME", <<"Lebanon">> >>,
     <<"AL", <<"Columbus">> >>,
     <<"ID", <<"Coeur D' Alene", "Coeur D Alene", "Coeur d'Alene">> >>,
     <<"KY", <<"Mt Sterling", "Mt. Sterling", "LaGrange">> >>,
     <<"IN", <<"LaPorte">> >>,
     <<"LA", <<"Greenwell Springs", "St. Amant">> >>,
     <<"DE", <<"Rehoboth", "Rehoboth Beach">> >>,
     <<"NV", <<"Primm", "N Las Vegas", "North Las Vegas", "Jean">> >>,
     <<"OK", <<"Fort Smith">> >> >>

\* validate-state-boundaries.js STATE_ABBREV, <<state name, abbreviation>>
STATE_ABBREV ==
  << <<"Alabama", "AL">>, <<"Alaska", "AK">>, <<"Arizona", "AZ">>, <<"Arkansas", "AR">>,
     <<"California", "CA">>, <<"Colorado", "CO">>, <<"Connecticut", "CT">>,
     <<"Delaware", "DE">>, <<"District of Columbia", "DC">>, <<"Florida", "FL">>,
     <<"Georgia", "GA">>, <<"Hawaii", "HI">>, <<"Idaho", "ID">>, <<"Illinois", "IL">>,
     <<"Indiana", "IN">>, <<"Iowa", "IA">>, <<"Kansas", "KS">>, <<"Kentucky", "KY">>,
     <<"Louisiana", "LA">>, <<"Maine", "ME">>, <<"Maryland", "MD">>, <<"Massachusetts", "MA">>,
     <<"Michigan", "MI">>, <<"Minnesota", "MN">>, <<"Mississippi", "MS">>,
     <<"Missouri", "MO">>, <<"Montana", "MT">>, <<"Nebraska", "NE">>, <<"Nevada", "NV">>,
     <<"New Hampshire", "NH">>, <<"New Jersey", "NJ">>, <<"New Mexico", "NM">>,
     <<"New York", "NY">>, <<"North Carolina", "NC">>, <<"North Dakota", "ND">>,
     <<"Ohio", "OH">>, <<"Oklahoma", "OK">>, <<"Oregon", "OR">>, <<"Pennsylvania", "PA">>,
     <<"Rhode Island", "RI">>, <<"South Carolina", "SC">>, <<"South Dakota", "SD">>,
     <<"Tennessee", "TN">>, <<"Texas", "TX">>, <<"Utah", "UT">>, <<"Vermont", "VT">>,
     <<"Virginia", "VA">>, <<"Washington", "WA">>, <<"West Virginia", "WV">>,
     <<"Wisconsin", "WI">>, <<"Wyoming", "WY">> >>

(***************************************************************************)
(* String.prototype.localeCompare and Array.prototype.sort                 *)
(***************************************************************************)
\* The characters that sort before the letters, in collation order.
COLLATION_BEFORE_LETTERS == " _-,;:!?.'()[]{}@*/&#%+<=>|~$0123456789"

\* the base letter of a character (an accent is a secondary difference)
BaseLetter(c) ==
  IF toLowerChar(c) = "é" THEN "e" ELSE IF toLowerChar(c) = "ñ" THEN "n" ELSE toLowerChar(c)

\* The weight of a character at each collation level: the letter, the accent, the case.
\* A character outside the table weighs 0 at every level.
COLLATION_CHARS ==
  CharsOf(COLLATION_BEFORE_LETTERS \o AZ_LOWER \o AZ_UPPER \o ACCENT_LOWER \o ACCENT_UPPER)

CollationWeights ==
  [c \in COLLATION_CHARS |->
     << IF includes(COLLATION_BEFORE_LETTERS, c) THEN 1 + indexOf(COLLATION_BEFORE_LETTERS, c)
        ELSE 1 + Len(COLLATION_BEFORE_LETTERS) + indexOf(AZ_LOWER, BaseLetter(c)),
        IF BaseLetter(c) # toLowerChar(c) THEN 1 ELSE 0,
        IF toLowerChar(c) # c THEN 1 ELSE 0 >>]

CollationWeight(level, c) == IF c \in COLLATION_CHARS THEN CollationWeights[c][level] ELSE 0

\* the two strings compared at one level, from index i on: -1, 0 or 1
RECURSIVE CompareFrom(_, _, _, _)
CompareFrom(level, a, b, i) ==
  IF i > Len(a) /\ i > Len(b) THEN 0
  ELSE IF i > Len(a) THEN -1
  ELSE IF i > Len(b) THEN 1
  ELSE LET wa == CollationWeight(level, Ch(a, i))
           wb == CollationWeight(level, Ch(b, i))
       IN  IF wa < wb THEN -1 ELSE IF wa > wb THEN 1 ELSE CompareFrom(level, a, b, i + 1)

\* a.localeCompare(b): letters first, then accents, then case (lower before upper)
localeCompare(a, b) ==
  IF a = b THEN 0
  ELSE LET primary == CompareFrom(1, a, b, 1)
           secondary == CompareFrom(2, a, b, 1)
       IN  IF primary # 0 THEN primary
           ELSE IF secondary # 0 THEN secondary
           ELSE CompareFrom(3, a, b, 1)

\* array.sort(cmp), which is stable: an element goes after the elements that compare
\* before it and after the equal elements that stood before it
sort(q, cmp(_, _)) ==
  LET rank == [i \in 1..Len(q) |->
                 Cardinality({j \in 1..Len(q) :
                                \/ cmp(q[j], q[i]) < 0
                                \/ (cmp(q[j], q[i]) = 0 /\ j < i)})]
  IN  [k \in 1..Len(q) |-> q[CHOOSE i \in 1..Len(q) : rank[i] = k - 1]]

\* the keys of a directory listing or of an object, sorted
sortedKeys(S) ==
  [k \in 1..Cardinality(S) |->
     CHOOSE x \in S : Cardinality({y \in S : localeCompare(y, x) < 0}) = k - 1]

\* the concatenation of a sequence of sequences
RECURSIVE flat(_)
flat(qs) == IF Len(qs) = 0 THEN <<>> ELSE Head(qs) \o flat(Tail(qs))

(***************************************************************************)
(* validate-state-boundaries.js                                            *)
(***************************************************************************)
\* Coordinates are integers, in units of 1e-7 degree.
DC_BOUNDS ==
  [name |-> "District of Columbia", north |-> 389955480, south |-> 387916450,
   east |-> -769093930, west |-> -771197590]

\* obj[key] = value on an object kept as <<key, value>> pairs in insertion order:
\* a key that is already there keeps its place
setKey(obj, key, value) ==
  IF \E i \in 1..Len(obj) : obj[i][1] = key
  THEN [i \in 1..Len(obj) |-> IF obj[i][1] = key THEN <<key, value>> ELSE obj[i]]
  ELSE Append(obj, <<key, value>>)

hasKey(obj, key) == \E i \in 1..Len(obj) : obj[i][1] = key
getKey(obj, key) == obj[CHOOSE i \in 1..Len(obj) : obj[i][1] = key][2]

\* the rows of StateBoundaries.txt whose state name STATE_ABBREV knows, keyed by abbreviation
RECURSIVE loadStateBoundaries(_)
loadStateBoundaries(rows) ==
  IF Len(rows) = 0 THEN <<>>
  ELSE LET before == loadStateBoundaries(SubSeq(rows, 1, Len(rows) - 1))
           row == rows[Len(rows)]
       IN  IF hasKey(STATE_ABBREV, row[1])
           THEN setKey(before, getKey(STATE_ABBREV, row[1]),
                       [name |-> row[1], north |-> row[2], south |-> row[3],
                        east |-> row[4], west |-> row[5]])
           ELSE before

\* const boundaries = loadStateBoundaries(); boundaries['DC'] = DC_BOUNDS
loadedBoundaries(rows) == setKey(loadStateBoundaries(rows), "DC", DC_BOUNDS)

\* isInState with strict comparisons: a point on an edge is outside
isInStateStrict(lat, lon, bounds) ==
  IF bounds.west > 0 /\ bounds.east < 0
  THEN lat < bounds.north /\ lat > bounds.south /\ (lon > bounds.west \/ lon < bounds.east)
  ELSE lat < bounds.north /\ lat > bounds.south /\ lon < bounds.east /\ lon > bounds.west

\* isInState without the branch for a box that crosses the 180th meridian
isInStateNoWrap(lat, lon, bounds) ==
  lat <= bounds.north /\ lat >= bounds.south /\ lon <= bounds.east /\ lon >= bounds.west

isInState(lat, lon, bounds) ==
  IF bounds.west > 0 /\ bounds.east < 0
  THEN LET lonInRange == lon >= bounds.west \/ lon <= bounds.east
       IN  lat <= bounds.north /\ lat >= bounds.south /\ lonInRange
  ELSE lat <= bounds.north /\ lat >= bounds.south /\ lon <= bounds.east /\ lon >= bounds.west

\* findActualState that stops at the first box that holds the point
findFirstActualState(lat, lon, bs) ==
  LET holds(entry) == isInState(lat, lon, entry[2])
      matches == SelectSeq(bs, holds)
  IN  IF Len(matches) = 0 THEN <<>> ELSE <<matches[1][1]>>

\* the abbreviations of the boxes that hold the point, in the order of Object.entries
findActualState(lat, lon, bs) ==
  LET holds(entry) == isInState(lat, lon, entry[2])
      matches == SelectSeq(bs, holds)
  IN  [i \in 1..Len(matches) |-> matches[i][1]]

\* the entry with an empty actual_state where the point is in no box
boundaryErrorNeverNone(brandKey, loc, bs) ==
  [brand |-> brandKey,
   city |-> IF loc.city # "" THEN loc.city ELSE "(empty)",
   statedState |-> loc.state,
   actualStates |-> join(findActualState(loc.lat, loc.lon, bs), "/"),
   lat |-> loc.lat, lon |-> loc.lon,
   address |-> loc.address]

\* the entry pushed to errors for a location outside the box of its stated state
boundaryError(brandKey, loc, bs) ==
  LET actualStates == findActualState(loc.lat, loc.lon, bs)
  IN  [brand |-> brandKey,
       city |-> IF loc.city # "" THEN loc.city ELSE "(empty)",
       statedState |-> loc.state,
       actualStates |-> IF Len(actualStates) > 0 THEN join(actualStates, "/") ELSE "NONE",
       lat |-> loc.lat, lon |-> loc.lon,
       address |-> loc.address]

\* the inner loop with a location whose state has no box taken as outside
boundaryErrorsOfUnmappedToo(brandKey, locs, bs) ==
  LET outside(loc) ==
        ~hasKey(bs, loc.state) \/ ~isInState(loc.lat, loc.lon, getKey(bs, loc.state))
      flagged == SelectSeq(locs, outside)
  IN  [i \in 1..Len(flagged) |-> boundaryError(brandKey, flagged[i], bs)]

\* the inner loop: the errors of one brand file, in the order of its locations
boundaryErrorsOf(brandKey, locs, bs) ==
  LET outside(loc) == hasKey(bs, loc.state) /\ ~isInState(loc.lat, loc.lon, getKey(bs, loc.state))
      flagged == SelectSeq(locs, outside)
  IN  [i \in 1..Len(flagged) |-> boundaryError(brandKey, flagged[i], bs)]

\* errors.sort(...): by brand, then by stated state
compareErrors(a, b) ==
  IF a.brand # b.brand THEN localeCompare(a.brand, b.brand)
  ELSE localeCompare(a.statedState, b.statedState)

\* The loop over the brand files and the sort.  The listing's order does not matter,
\* the errors are sorted by brand afterwards.
boundaryReport(files, bs) ==
  LET keys == sortedKeys(DOMAIN files)
      errors == flat([i \in 1..Len(keys) |->
                        boundaryErrorsOf(keys[i], files[keys[i]].locations, bs)])
  IN  sort(errors, compareErrors)

\* totalLocations and skippedLocations after the loop over the brand files
RECURSIVE countLocations(_, _, _)
countLocations(files, keys, bs) ==
  IF Len(keys) = 0 THEN [total |-> 0, skipped |-> 0]
  ELSE LET rest == countLocations(files, Tail(keys), bs)
           locs == files[Head(keys)].locations
           unmapped(loc) == ~hasKey(bs, loc.state)
       IN  [total |-> Len(locs) + rest.total,
            skipped |-> Len(SelectSeq(locs, unmapped)) + rest.skipped]

\* the report file and the two counters of the summary
boundaryOutput(files, bs) ==
  LET counts == countLocations(files, sortedKeys(DOMAIN files), bs)
  IN  [written |-> TRUE, lines |-> boundaryReport(files, bs),
       total |-> counts.total, skipped |-> counts.skipped]

\* The script with a validator that also removes what it flags from the brand files.
ValidateStateBoundariesDropping ==
  /\ pc \in {"idle", "done", "failed"}
  /\ stateErrors' = boundaryOutput(brandFiles, boundaries)
  /\ LET inside(loc) ==
           ~(hasKey(boundaries, loc.state)
               /\ ~isInState(loc.lat, loc.lon, getKey(boundaries, loc.state)))
     IN  brandFiles' = [k \in DOMAIN brandFiles |->
                          [brandFiles[k] EXCEPT !.locations = SelectSeq(@, inside)]]
  /\ UNCHANGED <<manifest, badLocations>>
  /\ UNCHANGED <<refVars, runVars, harnessVars>>

\* The whole script: every brand file is read and every location checked, the errors
\* are sorted and the report is written, the counters are printed.  The brand files
\* are only read.
ValidateStateBoundaries ==
  /\ pc \in {"idle", "done", "failed"}
  /\ stateErrors' = boundaryOutput(brandFiles, boundaries)
  /\ UNCHANGED <<fileVars, badLocations>>
  /\ UNCHANGED <<refVars, runVars, harnessVars>>

(***************************************************************************)
(* extract-brand.js: the field extraction strategies                       *)
(***************************************************************************)
\* The tags the two extractors read.  A feature's properties give every one of them a
\* string, "" for a tag that is missing.
TAG_KEYS ==
  {"brand", "addr:country", "country", "addr:city", "city", "addr:state", "state",
   "addr:full", "addr:postcode", "postcode", "name", "branch", "addr:street_address",
   "addr:street", "addr:housenumber", "street_address", "@source_uri", "website"}

\* the first of the keys whose tag is not empty
getProperty(props, keys) ==
  LET hits == {i \in 1..Len(keys) : props[keys[i]] # ""}
  IN  IF hits = {} THEN "" ELSE props[keys[MinOf(hits)]]

\* zipcodeToCity and zipcodeToState as the load loop leaves them: a later row
\* overwrites an earlier one
RECURSIVE loadZipcodeToState(_)
loadZipcodeToState(rows) ==
  IF Len(rows) = 0 THEN EmptyMap
  ELSE LET before == loadZipcodeToState(SubSeq(rows, 1, Len(rows) - 1))
           row == rows[Len(rows)]
       IN  IF row.zipcode # "" /\ row.state # ""
           THEN (row.zipcode :> row.state) @@ before
           ELSE before

RECURSIVE loadZipcodeToCity(_)
loadZipcodeToCity(rows) ==
  IF Len(rows) = 0 THEN EmptyMap
  ELSE LET before == loadZipcodeToCity(SubSeq(rows, 1, Len(rows) - 1))
           row == rows[Len(rows)]
       IN  IF row.zipcode # "" /\ row.city # "" /\ ~startsWith(row.city, "Zcta")
           THEN (row.zipcode :> row.city) @@ before
           ELSE before

\* postcode.toString().replace(/[^0-9]/g, '').substring(0, 5)
RECURSIVE digitsOf(_)
digitsOf(s) ==
  IF s = "" THEN ""
  ELSE (IF IsDigit(Head(s)) THEN Head(s) ELSE "") \o digitsOf(Tail(s))

zipOf(postcode) ==
  IF Len(digitsOf(postcode)) > 5 THEN SubSeq(digitsOf(postcode), 1, 5) ELSE digitsOf(postcode)

getCityFromPostcode(zipMap, postcode) ==
  IF postcode = "" THEN ""
  ELSE IF zipOf(postcode) \in DOMAIN zipMap THEN zipMap[zipOf(postcode)] ELSE ""

getStateFromPostcode(zipMap, postcode) ==
  IF postcode = "" THEN ""
  ELSE IF zipOf(postcode) \in DOMAIN zipMap THEN zipMap[zipOf(postcode)] ELSE ""

isHotelOrResortName(name) ==
  IF name = "" THEN FALSE
  ELSE LET lower == toLowerCase(name)
       IN  \/ \E i \in 1..Len(hotelKeywords) : includes(lower, hotelKeywords[i])
           \/ startsWith(lower, "at ")
           \/ includes(lower, " in the ")

\* /^\d+\s/
startsWithNumber(s) ==
  LET RECURSIVE run(_)
      run(i) == IF i <= Len(s) /\ IsDigit(Ch(s, i)) THEN 1 + run(i + 1) ELSE 0
  IN  run(1) >= 1 /\ SpaceRun(s, 1 + run(1)) >= 1

\* /\([^)]+\)$/
endsWithParenthetical(s) ==
  LET n == Len(s)
  IN  /\ n >= 3
      /\ Ch(s, n) = ")"
      /\ \E j \in 1..(n - 2) :
           Ch(s, j) = "(" /\ \A k \in (j + 1)..(n - 1) : Ch(s, k) # ")"

isInvalidCityName(name) ==
  IF name = "" THEN TRUE
  ELSE LET lower == toLowerCase(name)
       IN  \/ Len(name) < 2
           \/ lower \in SeqToSet(invalidSingleWords)
           \/ (startsWith(lower, "city of ") /\ Len(lower) < 12)
           \/ startsWith(lower, "downtown ")
           \/ endsWith(lower, " area")
           \/ endsWith(lower, " county")
           \/ endsWith(lower, " airport")
           \/ endsWith(lower, " california")
           \/ includes(lower, " / ")
           \/ startsWithNumber(lower)
           \/ includes(lower, " dr") \/ includes(lower, " rd") \/ includes(lower, " blvd")
           \/ includes(lower, " ave") \/ includes(lower, " street")
           \/ endsWithParenthetical(lower)

STATE_NAMES_LOWER == LowerSet(STATE_NAMES)
\* STATE_NAMES.some(s => s.toLowerCase() === part.toLowerCase())
isStateName(part) == toLowerCase(part) \in STATE_NAMES_LOWER

\* /^(w1|w2|...)/i
startsWithAnyOf(s, ws) == \E w \in ws : startsWith(toLowerCase(s), w)

\* extractCityFromFull without its fallback to the second part of the address
extractCityFromFullBeforeStateOnly(addrFull) ==
  IF addrFull = "" THEN ""
  ELSE LET raw == split(addrFull, ",")
           parts == [i \in 1..Len(raw) |-> trim(raw[i])]
           stateHits == {i \in 1..Len(parts) : isStateName(parts[i])}
           stateIndex == IF stateHits = {} THEN 0 ELSE MinOf(stateHits)
           beforeState == IF stateIndex > 2 THEN parts[stateIndex - 1] ELSE ""
       IN  IF /\ Len(parts) >= 2
              /\ stateIndex > 2
              /\ beforeState # ""
              /\ ~IsDigit(Ch(beforeState, 1))
              /\ ~startsWithAnyOf(beforeState, {"space", "suite", "unit", "floor", "room"})
           THEN beforeState
           ELSE ""

\* extractCityFromFull with the part before the state name taken at any position
extractCityFromFullAtAnyPosition(addrFull) ==
  IF addrFull = "" THEN ""
  ELSE LET raw == split(addrFull, ",")
           parts == [i \in 1..Len(raw) |-> trim(raw[i])]
           stateHits == {i \in 1..Len(parts) : isStateName(parts[i])}
           stateIndex == IF stateHits = {} THEN 0 ELSE MinOf(stateHits)
           beforeState == IF stateIndex > 1 THEN parts[stateIndex - 1] ELSE ""
           secondPart == parts[2]
       IN  IF Len(parts) < 2 THEN ""
           ELSE IF /\ stateIndex > 1
                   /\ beforeState # ""
                   /\ ~IsDigit(Ch(beforeState, 1))
                   /\ ~startsWithAnyOf(beforeState, {"space", "suite", "unit", "floor", "room"})
           THEN beforeState
           ELSE IF /\ secondPart # ""
                   /\ ~IsDigit(Ch(secondPart, 1))
                   /\ ~startsWithAnyOf(secondPart,
                                       {"space", "suite", "unit", "floor", "room", "mall"})
                   /\ ~isStateName(secondPart)
           THEN secondPart
           ELSE ""

extractCityFromFull(addrFull) ==
  IF addrFull = "" THEN ""
  ELSE LET raw == split(addrFull, ",")
           parts == [i \in 1..Len(raw) |-> trim(raw[i])]
           stateHits == {i \in 1..Len(parts) : isStateName(parts[i])}
           \* 1-based: the source's stateIndex is this less one, -1 for none
           stateIndex == IF stateHits = {} THEN 0 ELSE MinOf(stateHits)
           beforeState == IF stateIndex > 2 THEN parts[stateIndex - 1] ELSE ""
           secondPart == parts[2]
       IN  IF Len(parts) < 2 THEN ""
           ELSE IF /\ stateIndex > 2
                   /\ beforeState # ""
                   /\ ~IsDigit(Ch(beforeState, 1))
                   /\ ~startsWithAnyOf(beforeState, {"space", "suite", "unit", "floor", "room"})
           THEN beforeState
           ELSE IF /\ secondPart # ""
                   /\ ~IsDigit(Ch(secondPart, 1))
                   /\ ~startsWithAnyOf(secondPart,
                                       {"space", "suite", "unit", "floor", "room", "mall"})
                   /\ ~isStateName(secondPart)
           THEN secondPart
           ELSE ""

\* the number of characters of s from index i on that are in class (forwards)
RECURSIVE RunOf(_, _, _)
RunOf(s, i, class) ==
  IF i >= 1 /\ i <= Len(s) /\ Ch(s, i) \in class THEN 1 + RunOf(s, i + 1, class) ELSE 0

\* the number of characters of s ending at index i that are in class (backwards)
RECURSIVE RunBackOf(_, _, _)
RunBackOf(s, i, class) ==
  IF i >= 1 /\ i <= Len(s) /\ Ch(s, i) \in class THEN 1 + RunBackOf(s, i - 1, class) ELSE 0

\* [A-Za-z\s], [a-z0-9-] under /i, \w
AsciiLetters == LowerLetters \cup UpperLetters
IsLetterOrSpace(c) == c \in AsciiLetters \/ IsSpace(c)
SlugChars == AsciiLetters \cup Digits \cup {"-"}
WordChars == AsciiLetters \cup Digits \cup {"_"}

\* city.replace(/\s+Loc\.?\s*\d*$/i, '')
stripLocSuffix(city) ==
  LET n1 == Len(city) - RunBackOf(city, Len(city), Digits)
      n2 == n1 - SpaceRunBack(city, n1)
      n3 == IF n2 >= 1 /\ Ch(city, n2) = "." THEN n2 - 1 ELSE n2
      k == SpaceRunBack(city, n3 - 3)
  IN  IF n3 >= 4 /\ toLowerCase(SubSeq(city, n3 - 2, n3)) = "loc" /\ k >= 1
      THEN SubSeq(city, 1, n3 - 3 - k)
      ELSE city

\* city.replace(/\s*&\s*\w+\s+Co\.?$/i, '')
stripAndCoSuffix(city) ==
  LET n1 == IF city # "" /\ Ch(city, Len(city)) = "." THEN Len(city) - 1 ELSE Len(city)
      n2 == n1 - 2
      sp == SpaceRunBack(city, n2)
      n3 == n2 - sp
      w == RunBackOf(city, n3, WordChars)
      n4 == n3 - w - SpaceRunBack(city, n3 - w)
  IN  IF /\ n1 >= 2 /\ toLowerCase(SubSeq(city, n1 - 1, n1)) = "co"
         /\ sp >= 1 /\ w >= 1
         /\ n4 >= 1 /\ Ch(city, n4) = "&"
      THEN SubSeq(city, 1, n4 - 1 - SpaceRunBack(city, n4 - 1))
      ELSE city

\* The words before "of" in pattern 2.  The source also takes a typographic apostrophe
\* (U+2019) before the s; the names of the model are written with the ASCII one.
OF_WORDS == {"store", "grocery", "market", "shop", "'s"}

\* What /(?:Store|Grocery|Market|Shop|['\u2019]s)\s+of\s+(.+)$/i captures when the word
\* before "of" is at index i of name (group 1, trimmed); <<>> when it does not match there.
ofCaptureAt(name, lower, i) ==
  LET ws == {w \in OF_WORDS : OccursAt(lower, w, i)}
      w == CHOOSE x \in ws : TRUE
      o == i + Len(w) + SpaceRun(lower, i + Len(w))
      rest == SubSeq(name, o + 2, Len(name))
      lead == SpaceRun(rest, 1)
      most == IF lead < Len(rest) THEN lead ELSE Len(rest) - 1
  IN  IF /\ ws # {}
         /\ SpaceRun(lower, i + Len(w)) >= 1
         /\ OccursAt(lower, "of", o)
         /\ \E k \in 1..most : \A j \in (k + 1)..Len(rest) : Ch(rest, j) # "\n"
      THEN <<trim(rest)>>
      ELSE <<>>

\* What /\s+(?:in|at)\s+([A-Za-z\s]+)$/i captures when "in" or "at" is at index j of name
inCaptureAt(name, lower, j) ==
  LET rest == SubSeq(name, j + 2, Len(name))
  IN  IF /\ (OccursAt(lower, "in", j) \/ OccursAt(lower, "at", j))
         /\ j >= 2 /\ IsSpace(Ch(name, j - 1))
         /\ Len(rest) >= 2 /\ IsSpace(Ch(rest, 1))
         /\ \A k \in 1..Len(rest) : IsLetterOrSpace(Ch(rest, k))
      THEN <<trim(rest)>>
      ELSE <<>>

\* remainder.replace(/#?\d+\s*/g, '')
RECURSIVE stripStoreNumbers(_)
stripStoreNumbers(s) ==
  LET h == IF Len(s) >= 2 /\ Ch(s, 1) = "#" /\ IsDigit(Ch(s, 2)) THEN 1 ELSE 0
      d == RunOf(s, h + 1, Digits)
      e == h + d + SpaceRun(s, h + d + 1)
  IN  IF s = "" THEN ""
      ELSE IF d >= 1 THEN stripStoreNumbers(SubSeq(s, e + 1, Len(s)))
      ELSE Ch(s, 1) \o stripStoreNumbers(SubSeq(s, 2, Len(s)))

\* remainder.replace(/\s*(Store|Grocery|Market|Shop|Location)$/i, '')
stripStoreWord(s) ==
  LET ws == {w \in {"store", "grocery", "market", "shop", "location"} :
               endsWith(toLowerCase(s), w)}
      e == Len(s) - Len(CHOOSE w \in ws : TRUE)
  IN  IF ws = {} THEN s ELSE SubSeq(s, 1, e - SpaceRunBack(s, e))

ROAD_WORDS == {"blvd", "st", "ave", "rd", "dr", "ln", "ct", "way", "pk", "pkwy", "hwy"}

\* Pattern 4: name.replace(new RegExp(`^${brandDisplayName}\\s*`, 'i'), '') and what
\* follows.  The display name is matched as it is written: the display names of the model
\* have no character that a regular expression reads as an operator.
afterBrand(name, brandDisplayName) ==
  LET n == Len(brandDisplayName)
      cut == IF startsWith(toLowerCase(name), toLowerCase(brandDisplayName))
             THEN SubSeq(name, n + 1 + SpaceRun(name, n + 1), Len(name))
             ELSE name
  IN  trim(stripStoreWord(trim(stripStoreNumbers(trim(cut)))))

extractCityFromName(name, brandDisplayName) ==
  IF name = "" THEN ""
  ELSE LET parts == split(name, " - ")
           last == trim(parts[Len(parts)])
           lower == toLowerCase(name)
           ofHits == {i \in 1..Len(name) : ofCaptureAt(name, lower, i) # <<>>}
           ofCity == ofCaptureAt(name, lower, MinOf(ofHits))[1]
           inHits == {j \in 1..Len(name) : inCaptureAt(name, lower, j) # <<>>}
           remainder == afterBrand(name, brandDisplayName)
       IN  IF Len(parts) >= 2 /\ last # "" /\ ~IsDigit(Ch(last, 1)) THEN last
           ELSE IF ofHits # {}
           THEN stripAndCoSuffix(stripLocSuffix(stripTrailingState(ofCity)))
           ELSE IF inHits # {} THEN inCaptureAt(name, lower, MinOf(inHits))[1]
           ELSE IF /\ brandDisplayName # ""
                   /\ Len(remainder) >= 3
                   /\ ~IsDigit(Ch(remainder, 1))
                   /\ ~startsWithAnyOf(remainder, ROAD_WORDS)
           THEN remainder
           ELSE ""

STATE_NAMES_LOWER_LIST == [i \in 1..Len(STATE_NAMES) |-> toLowerCase(STATE_NAMES[i])]

\* The end of group 1 of /([A-Za-z\s]+?)\s+<stateName>/i when the match starts at index i
\* of full: the least j from i on with letters and spaces only in i..j, a space after j
\* and the state name after the spaces.  0 when no match starts at i.
RECURSIVE embeddedEnd(_, _, _, _)
embeddedEnd(full, lower, stateLower, j) ==
  IF j > Len(full) \/ ~IsLetterOrSpace(Ch(full, j)) THEN 0
  ELSE IF /\ SpaceRun(full, j + 1) >= 1
          /\ OccursAt(lower, stateLower, j + 1 + SpaceRun(full, j + 1))
  THEN j
  ELSE embeddedEnd(full, lower, stateLower, j + 1)

\* match[1] for one state name; <<>> when the expression does not match
embeddedMatch(full, lower, stateLower) ==
  LET starts == {i \in 1..Len(full) : embeddedEnd(full, lower, stateLower, i) > 0}
      i0 == MinOf(starts)
  IN  IF ~includes(lower, stateLower) \/ starts = {} THEN <<>>
      ELSE <<SubSeq(full, i0, embeddedEnd(full, lower, stateLower, i0))>>

\* words[words.length - 1] of s.trim().split(/\s+/)
lastWordOf(s) ==
  LET t == trim(s)
  IN  SubSeq(t, Len(t) - RunBackOf(t, Len(t), CharsOf(t) \ {" ", "\t", "\n"}) + 1, Len(t))

\* Fallback 3: the loop over STATE_NAMES from index k on; "" when no state name gives a city
RECURSIVE embeddedCityFrom(_, _, _)
embeddedCityFrom(full, lower, k) ==
  IF k > Len(STATE_NAMES) THEN ""
  ELSE LET match == embeddedMatch(full, lower, STATE_NAMES_LOWER_LIST[k])
           lastWord == lastWordOf(match[1])
       IN  IF /\ match # <<>>
              /\ Len(lastWord) > 1
              /\ ~IsDigit(Ch(lastWord, 1))
              /\ toLowerCase(lastWord) \notin ROAD_WORDS
           THEN lastWord
           ELSE embeddedCityFrom(full, lower, k + 1)

embeddedCity(full) == embeddedCityFrom(full, toLowerCase(full), 1)

URL_PREFIXES == {"ritas-of-", "location/", "store/"}
URL_NOISE == {"ritas", "of", "loc", "store", "location"}

\* match[1] of /\/(?:ritas-of-|location\/|store\/)([a-z0-9-]+)(?:\/|$)/i when the match
\* starts at index i of url; <<>> when none starts there
slugAt(url, lower, i) ==
  LET ps == {p \in URL_PREFIXES : OccursAt(lower, p, i + 1)}
      b == i + 1 + Len(CHOOSE p \in ps : TRUE)
      m == RunOf(url, b, SlugChars)
  IN  IF /\ Ch(url, i) = "/"
         /\ ps # {}
         /\ m >= 1
         /\ (b + m > Len(url) \/ Ch(url, b + m) = "/")
      THEN <<SubSeq(lower, b, b + m - 1)>>
      ELSE <<>>

NoUrlInfo == [city |-> "", state |-> ""]

\* extractLocationFromUrl with the state taken from the last token of the slug only
extractLocationFromUrlTrailingOnly(url) ==
  LET lower == toLowerCase(url)
      hits == {i \in 1..Len(url) : slugAt(url, lower, i) # <<>>}
      parts == split(slugAt(url, lower, MinOf(hits))[1], "-")
      stateHits == {i \in {Len(parts)} :
                      Len(parts[i]) = 2 /\ toUpperCase(parts[i]) \in SeqToSet(STATE_ABBREVS)}
      stateIndex == CHOOSE i \in stateHits : \A j \in stateHits : j <= i
      cityParts == SelectSeq(SubSeq(parts, 1, stateIndex - 1),
                             LAMBDA p : p \notin URL_NOISE /\ ~(p # "" /\ AllDigits(p)))
      capitalized == [i \in 1..Len(cityParts) |->
                        IF cityParts[i] = "" THEN ""
                        ELSE toUpperChar(Ch(cityParts[i], 1))
                               \o SubSeq(cityParts[i], 2, Len(cityParts[i]))]
  IN  IF url = "" \/ hits = {} THEN NoUrlInfo
      ELSE IF stateHits = {} \/ stateIndex < 2 THEN NoUrlInfo
      ELSE IF Len(cityParts) = 0 THEN NoUrlInfo
      ELSE [city |-> join(capitalized, " "), state |-> toUpperCase(parts[stateIndex])]

extractLocationFromUrl(url) ==
  LET lower == toLowerCase(url)
      hits == {i \in 1..Len(url) : slugAt(url, lower, i) # <<>>}
      parts == split(slugAt(url, lower, MinOf(hits))[1], "-")
      stateHits == {i \in 1..Len(parts) :
                      Len(parts[i]) = 2 /\ toUpperCase(parts[i]) \in SeqToSet(STATE_ABBREVS)}
      \* 1-based: the source's stateIndex is this less one
      stateIndex == CHOOSE i \in stateHits : \A j \in stateHits : j <= i
      cityParts == SelectSeq(SubSeq(parts, 1, stateIndex - 1),
                             LAMBDA p : p \notin URL_NOISE /\ ~(p # "" /\ AllDigits(p)))
      capitalized == [i \in 1..Len(cityParts) |->
                        IF cityParts[i] = "" THEN ""
                        ELSE toUpperChar(Ch(cityParts[i], 1))
                               \o SubSeq(cityParts[i], 2, Len(cityParts[i]))]
  IN  IF url = "" \/ hits = {} THEN NoUrlInfo
      ELSE IF stateHits = {} \/ stateIndex < 2 THEN NoUrlInfo
      ELSE IF Len(cityParts) = 0 THEN NoUrlInfo
      ELSE [city |-> join(capitalized, " "), state |-> toUpperCase(parts[stateIndex])]

(***************************************************************************)
(* extract-brand.js: the filter and the map over data.features             *)
(***************************************************************************)
\* A feature is [hasGeometry, lat, lon, properties]: lat and lon are
\* geometry.coordinates[1] and [0], properties gives every tag of TAG_KEYS a string.
hasCityName(props) ==
  props["name"] # "" /\ includes(props["name"], " of ")

\* the filters without the test of the city name
keepFeatureWhateverCity(f, filterBrand) ==
  LET props == f.properties
      country == getProperty(props, <<"addr:country", "country">>)
      tagged == getProperty(props, <<"addr:city", "city">>)
      state == getProperty(props, <<"addr:state", "state">>)
      city == IF tagged = "" /\ props["addr:full"] # ""
              THEN extractCityFromFull(props["addr:full"])
              ELSE tagged
  IN  /\ f.hasGeometry
      /\ (filterBrand # "" => props["brand"] = filterBrand)
      /\ country \in {"US", ""}
      /\ ~(tagged = "Test" /\ state = "AL")
      /\ ~isHotelOrResortName(city)

\* the filters without the test of hotel and resort names
keepFeatureHotelsToo(f, filterBrand) ==
  LET props == f.properties
      country == getProperty(props, <<"addr:country", "country">>)
      tagged == getProperty(props, <<"addr:city", "city">>)
      state == getProperty(props, <<"addr:state", "state">>)
      city == IF tagged = "" /\ props["addr:full"] # ""
              THEN extractCityFromFull(props["addr:full"])
              ELSE tagged
  IN  /\ f.hasGeometry
      /\ (filterBrand # "" => props["brand"] = filterBrand)
      /\ country \in {"US", ""}
      /\ ~(tagged = "Test" /\ state = "AL")
      /\ ~(/\ isInvalidCityName(city)
           /\ props["addr:full"] = ""
           /\ props["addr:postcode"] = ""
           /\ props["postcode"] = ""
           /\ ~hasCityName(props))

\* the two filters of data.features
keepFeature(f, filterBrand) ==
  LET props == f.properties
      country == getProperty(props, <<"addr:country", "country">>)
      tagged == getProperty(props, <<"addr:city", "city">>)
      state == getProperty(props, <<"addr:state", "state">>)
      city == IF tagged = "" /\ props["addr:full"] # ""
              THEN extractCityFromFull(props["addr:full"])
              ELSE tagged
  IN  /\ f.hasGeometry
      /\ (filterBrand # "" => props["brand"] = filterBrand)
      /\ country \in {"US", ""}
      /\ ~(tagged = "Test" /\ state = "AL")
      /\ ~isHotelOrResortName(city)
      /\ ~(/\ isInvalidCityName(city)
           /\ props["addr:full"] = ""
           /\ props["addr:postcode"] = ""
           /\ props["postcode"] = ""
           /\ ~hasCityName(props))

\* Math.round(x * 1000000) / 1000000 of a coordinate in units of 1e-7 degree: halves go up
roundTo6(x) == 10 * ((x + 5) \div 10)

\* a || b on strings; also "if (!a) a = b"
orElse(a, b) == IF a = "" THEN b ELSE a

\* props['@source_uri'] || props['website']
urlOf(props) == orElse(props["@source_uri"], props["website"])

\* The city as the tags and fallbacks 1 to 5 give it, before it is cleaned
extractedCity(props, displayName, zipCity) ==
  LET c1 == orElse(getProperty(props, <<"addr:city", "city">>),
                   extractCityFromFull(props["addr:full"]))
      c2 == orElse(c1, extractCityFromName(props["name"], displayName))
      c3 == orElse(c2, IF props["addr:full"] # "" THEN embeddedCity(props["addr:full"]) ELSE "")
      c4 == orElse(c3, getCityFromPostcode(zipCity,
                                           getProperty(props, <<"addr:postcode", "postcode">>)))
  IN  orElse(c4, extractLocationFromUrl(urlOf(props)).city)

\* extractedState with the postcode consulted before the state tags
extractedStatePostcodeFirst(props, zipState) ==
  LET s4 == orElse(getStateFromPostcode(zipState,
                                        getProperty(props, <<"addr:postcode", "postcode">>)),
                   getProperty(props, <<"addr:state", "state">>))
  IN  orElse(s4, extractLocationFromUrl(urlOf(props)).state)

\* The state as the tags and fallbacks 4 and 5 give it
extractedState(props, zipState) ==
  LET s4 == orElse(getProperty(props, <<"addr:state", "state">>),
                   getStateFromPostcode(zipState,
                                        getProperty(props, <<"addr:postcode", "postcode">>)))
  IN  orElse(s4, extractLocationFromUrl(urlOf(props)).state)

\* the body of the map over the features that the filters keep
toLocation(f, displayName, aliases, zipCity, zipState) ==
  LET props == f.properties
      state == extractedState(props, zipState)
      city == extractedCity(props, displayName, zipCity)
      address == getProperty(props, <<"addr:street_address", "addr:street",
                                      "street_address", "addr:full">>)
  IN  [lat |-> roundTo6(f.lat), lon |-> roundTo6(f.lon),
       city |-> normalizeCity(aliases, cleanCity(city), state),
       state |-> state, address |-> address, name |-> ""]

(***************************************************************************)
(* validate-cities.js                                                      *)
(***************************************************************************)
CANADIAN_PROVINCES ==
  {"AB", "BC", "MB", "NB", "NL", "NS", "NT", "NU", "ON", "PE", "QC", "SK", "YT"}

\* the key of a city in validCities: `${city.toLowerCase()}|${state}`
cityKey(city, state) == toLowerCase(city) \o "|" \o state

\* the keys added from EXTRA_VALID_CITIES
extraValidKeys ==
  UNION {{cityKey(EXTRA_VALID_CITIES[i][2][j], EXTRA_VALID_CITIES[i][1]) :
            j \in 1..Len(EXTRA_VALID_CITIES[i][2])} : i \in 1..Len(EXTRA_VALID_CITIES)}

\* validCities after the three loads: the ZIP database (rows [state, zipcode, city];
\* cities that are not ZCTA placeholders), the Census files (<<city name, state>>) and
\* EXTRA_VALID_CITIES
loadValidCities(zipRows, officialCities) ==
  {cityKey(zipRows[i].city, zipRows[i].state) :
     i \in {j \in 1..Len(zipRows) : zipRows[j].city # "" /\ ~startsWith(zipRows[j].city, "Zcta")}}
  \cup {cityKey(entry[1], entry[2]) : entry \in {e \in officialCities : e[1] # ""}}
  \cup extraValidKeys

\* /^\w+\s+\w+\s+\w+\s+\w+/ from index i on, with n words still to find
RECURSIVE WordRun(_, _)
WordRun(s, i) == IF i >= 1 /\ i <= Len(s) /\ IsWord(Ch(s, i)) THEN 1 + WordRun(s, i + 1) ELSE 0

RECURSIVE StartsWithWords(_, _, _)
StartsWithWords(s, i, n) ==
  /\ WordRun(s, i) >= 1
  /\ \/ n = 1
     \/ /\ SpaceRun(s, i + WordRun(s, i)) >= 1
        /\ StartsWithWords(s, i + WordRun(s, i) + SpaceRun(s, i + WordRun(s, i)), n - 1)

\* BAD_PATTERNS.some(pattern => pattern.test(city))
matchesBadPattern(city) ==
  LET lower == toLowerCase(city)
      n == Len(city)
      t == n - SpaceRunBack(city, n)
  IN  \/ includes(lower, "(empty)")
      \/ (n >= 1 /\ IsDigit(Ch(city, 1)))
      \/ (n \in {2, 3} /\ AllUpper(city))
      \/ endsWith(lower, "twp")
      \/ endsWith(city, "Bea")
      \/ endsWith(lower, "hgts")
      \/ endsWith(lower, "ctr")
      \/ endsWith(lower, "vlg")
      \/ (t >= 2 /\ Ch(city, t) = "-" /\ IsSpace(Ch(city, t - 1)))
      \/ StartsWithWords(city, 1, 4)

\* city.replace(/\s+(Township|Twp|Heights|Hgts|Center|Ctr|Village|Vlg)$/i, '').trim()
simplifyCity(city) ==
  LET n == Len(city)
      hits == {w \in {"township", "twp", "heights", "hgts", "center", "ctr", "village", "vlg"} :
                 /\ n > Len(w)
                 /\ toLowerCase(SubSeq(city, n - Len(w) + 1, n)) = w
                 /\ SpaceRunBack(city, n - Len(w)) >= 1}
  IN  IF hits = {} THEN trim(city)
      ELSE LET w == CHOOSE x \in hits : TRUE
           IN  trim(SubSeq(city, 1, n - Len(w) - SpaceRunBack(city, n - Len(w))))

\* isSuspicious without the exemption of the Canadian provinces
isSuspiciousEverywhere(city, state) ==
  IF city = "" \/ trim(city) = "" THEN TRUE
  ELSE IF cityKey(city, state) \in validCities THEN FALSE
  ELSE IF cityKey(simplifyCity(city), state) \in validCities THEN FALSE
  ELSE TRUE

\* isSuspicious with the patterns tested before the set of valid cities
isSuspiciousPatternsFirst(city, state) ==
  IF city = "" \/ trim(city) = "" THEN TRUE
  ELSE IF state \in CANADIAN_PROVINCES THEN FALSE
  ELSE IF matchesBadPattern(city) THEN TRUE
  ELSE IF cityKey(city, state) \in validCities THEN FALSE
  ELSE IF cityKey(simplifyCity(city), state) \in validCities THEN FALSE
  ELSE TRUE

\* isSuspicious with a city outside the set suspicious only when it matches a pattern
isSuspiciousOnPatternOnly(city, state) ==
  IF city = "" \/ trim(city) = "" THEN TRUE
  ELSE IF state \in CANADIAN_PROVINCES THEN FALSE
  ELSE IF cityKey(city, state) \in validCities THEN FALSE
  ELSE IF cityKey(simplifyCity(city), state) \in validCities THEN FALSE
  ELSE IF matchesBadPattern(city) THEN TRUE
  ELSE FALSE

\* The pattern loop returns true on a match, and the line after it returns true as well.
isSuspicious(city, state) ==
  IF city = "" \/ trim(city) = "" THEN TRUE
  ELSE IF state \in CANADIAN_PROVINCES THEN FALSE
  ELSE IF cityKey(city, state) \in validCities THEN FALSE
  ELSE IF cityKey(simplifyCity(city), state) \in validCities THEN FALSE
  ELSE IF matchesBadPattern(city) THEN TRUE
  ELSE TRUE

\* the entry pushed to badLocations
badLocation(brandKey, loc) ==
  [brand |-> brandKey,
   city |-> IF loc.city # "" THEN loc.city ELSE "(empty)",
   state |-> loc.state, lat |-> loc.lat, lon |-> loc.lon,
   address |-> loc.address]

\* badLocations.sort(...): by brand, then by city
compareBadLocations(a, b) ==
  IF a.brand # b.brand THEN localeCompare(a.brand, b.brand)
  ELSE localeCompare(a.city, b.city)

\* The loop over the brand files and the sort.
cityReport(files) ==
  LET keys == sortedKeys(DOMAIN files)
      suspicious(loc) == isSuspicious(loc.city, loc.state)
      bad(k) == LET hits == SelectSeq(files[k].locations, suspicious)
                IN  [i \in 1..Len(hits) |-> badLocation(k, hits[i])]
  IN  sort(flat([i \in 1..Len(keys) |-> bad(keys[i])]), compareBadLocations)

\* The whole script: the report of the suspicious locations is written; the brand
\* files are only read.
ValidateCities ==
  /\ pc \in {"idle", "done", "failed"}
  /\ badLocations' = [written |-> TRUE, lines |-> cityReport(brandFiles)]
  /\ UNCHANGED <<fileVars, stateErrors>>
  /\ UNCHANGED <<refVars, runVars, harnessVars>>

(***************************************************************************)
(* extract-osm-brand.js                                                    *)
(***************************************************************************)
US_STATES ==
  {"AL", "AK", "AZ", "AR", "CA", "CO", "CT", "DE", "FL", "GA",
   "HI", "ID", "IL", "IN", "IA", "KS", "KY", "LA", "ME", "MD",
   "MA", "MI", "MN", "MS", "MO", "MT", "NE", "NV", "NH", "NJ",
   "NM", "NY", "NC", "ND", "OH", "OK", "OR", "PA", "RI", "SC",
   "SD", "TN", "TX", "UT", "VT", "VA", "WA", "WV", "WI", "WY",
   "DC", "PR", "VI", "GU"}

CA_PROVINCES ==
  {"AB", "BC", "MB", "NB", "NL", "NS", "NT", "NU", "ON", "PE", "QC", "SK", "YT"}

getState(tags) == toUpperCase(getProperty(tags, <<"addr:state", "state">>))

getCity(tags) == getProperty(tags, <<"addr:city", "city">>)

getAddress(tags) ==
  IF tags["addr:street_address"] # "" THEN tags["addr:street_address"]
  ELSE IF tags["addr:housenumber"] # "" /\ tags["addr:street"] # ""
  THEN tags["addr:housenumber"] \o " " \o tags["addr:street"]
  ELSE IF tags["addr:street"] # "" THEN tags["addr:street"]
  ELSE tags["addr:full"]

getName(tags) == getProperty(tags, <<"name", "branch">>)

\* the rough US/Canada box, in units of 1e-7 degree
BOX_SOUTH == 240000000
BOX_NORTH == 720000000
BOX_WEST == -1700000000
BOX_EAST == -500000000

isUSOrCanadaUnlessElsewhere(tags, lat, lon) ==
  /\ tags["addr:country"] = "" \/ toUpperCase(tags["addr:country"]) \in {"US", "USA", "CA", "CAN"}
  /\ \/ toUpperCase(tags["addr:country"]) \in {"US", "USA", "CA", "CAN"}
     \/ getState(tags) \in US_STATES \cup CA_PROVINCES
     \/ /\ lat # 0 /\ lon # 0
        /\ lat >= BOX_SOUTH /\ lat <= BOX_NORTH /\ lon >= BOX_WEST /\ lon <= BOX_EAST

isUSOrCanada(tags, lat, lon) ==
  \/ toUpperCase(tags["addr:country"]) \in {"US", "USA", "CA", "CAN"}
  \/ getState(tags) \in US_STATES \cup CA_PROVINCES
  \/ /\ lat # 0 /\ lon # 0
     /\ lat >= BOX_SOUTH /\ lat <= BOX_NORTH /\ lon >= BOX_WEST /\ lon <= BOX_EAST

Magnitude(x) == IF x < 0 THEN -x ELSE x

\* x.toFixed(4) of a coordinate in units of 1e-7 degree: the sign and the rounded
\* magnitude, halves away from zero ("-0.0000" and "0.0000" are different strings)
toFixed4(x) == <<x < 0, (Magnitude(x) + 500) \div 1000>>

\* parseFloat(x.toFixed(5)), in units of 1e-7 degree
toFixed5(x) ==
  IF x < 0 THEN -(100 * ((Magnitude(x) + 50) \div 100)) ELSE 100 * ((x + 50) \div 100)

\* `${lat.toFixed(4)},${lon.toFixed(4)}`
coordKey(lat, lon) == <<toFixed4(lat), toFixed4(lon)>>

\* An element is [type, lat, lon, hasCenter, center, tags].  lat and lon of the loop:
\* the element's own for a node, its center's for a way or relation that has one,
\* undefined (0 here: the loop only tests them for truthiness) otherwise.
latOf(element) ==
  IF element.type = "node" THEN element.lat
  ELSE IF element.hasCenter THEN element.center.lat ELSE 0

lonOf(element) ==
  IF element.type = "node" THEN element.lon
  ELSE IF element.hasCenter THEN element.center.lon ELSE 0

osmLocation(element, useLocationName) ==
  [lat |-> toFixed5(latOf(element)), lon |-> toFixed5(lonOf(element)),
   city |-> getCity(element.tags), state |-> getState(element.tags),
   address |-> getAddress(element.tags),
   name |-> IF useLocationName THEN getName(element.tags) ELSE ""]

\* whether the loop keeps the element when it has seen the keys of seen
osmKeeps(element, seen) ==
  /\ latOf(element) # 0 /\ lonOf(element) # 0
  /\ isUSOrCanada(element.tags, latOf(element), lonOf(element))
  /\ coordKey(latOf(element), lonOf(element)) \notin seen

\* the loop without its test of seen: every usable element gives a location
RECURSIVE osmLoopKeepingDuplicates(_, _, _, _)
osmLoopKeepingDuplicates(elements, i, useLocationName, acc) ==
  IF i > Len(elements) THEN acc
  ELSE LET element == elements[i]
       IN  IF osmKeeps(element, {})
           THEN osmLoopKeepingDuplicates(elements, i + 1, useLocationName,
                  [locations |-> Append(acc.locations, osmLocation(element, useLocationName)),
                   seen |-> acc.seen \cup {coordKey(latOf(element), lonOf(element))}])
           ELSE osmLoopKeepingDuplicates(elements, i + 1, useLocationName, acc)

\* the loop over data.elements, from element i on, as [locations, seen]
RECURSIVE osmLoop(_, _, _, _)
osmLoop(elements, i, useLocationName, acc) ==
  IF i > Len(elements) THEN acc
  ELSE LET element == elements[i]
       IN  IF osmKeeps(element, acc.seen)
           THEN osmLoop(elements, i + 1, useLocationName,
                  [locations |-> Append(acc.locations, osmLocation(element, useLocationName)),
                   seen |-> acc.seen \cup {coordKey(latOf(element), lonOf(element))}])
           ELSE osmLoop(elements, i + 1, useLocationName, acc)

\* the comparison of locations.sort: by state, then by city
compareLocations(a, b) ==
  IF a.state # b.state THEN localeCompare(a.state, b.state)
  ELSE localeCompare(a.city, b.city)

\* The characters of the model's strings in the order of their UTF-16 code units
CODE_UNIT_ORDER ==
  " !#$%&'()*+,-./0123456789:;<=>?@ABCDEFGHIJKLMNOPQRSTUVWXYZ[]^_abcdefghijklmnopqrstuvwxyz{|}~ÉÑéñ"

\* the default comparison of Array.prototype.sort on strings: by code units
RECURSIVE codeUnitCompare(_, _)
codeUnitCompare(a, b) ==
  IF a = "" /\ b = "" THEN 0
  ELSE IF a = "" THEN -1
  ELSE IF b = "" THEN 1
  ELSE IF Head(a) = Head(b) THEN codeUnitCompare(Tail(a), Tail(b))
  ELSE IF FirstOccurrence(CODE_UNIT_ORDER, Ch(a, 1), 1)
            < FirstOccurrence(CODE_UNIT_ORDER, Ch(b, 1), 1)
  THEN -1
  ELSE 1

comparePairKeys(p, q) == codeUnitCompare(p[1], q[1])

(***************************************************************************)
(* The runs of the two extractors                                          *)
(***************************************************************************)
\* pc: "start" (arguments read, input at hand), "assembled" (locations built),
\* "written" (brand file written), "done", "failed" (process.exit(1)); "idle" when no
\* extractor runs.

\* brandData of extract-brand.js
atpBrandData(args, locs) ==
  [key |-> args.brandKey, displayName |-> args.displayName, category |-> args.category,
   useLocationName |-> FALSE, source |-> "", locations |-> locs]

\* output of extract-osm-brand.js
osmBrandData(args, locs) ==
  [key |-> args.brandKey, displayName |-> args.displayName, category |-> args.category,
   useLocationName |-> args.useLocationName, source |-> "osm", locations |-> locs]

\* The manifest entries.  The checksum is the MD5 of the brand file: it stands here as
\* the content it is computed from.  fileSize, a function of the same content, is left out.
atpManifestEntry(args, locs) ==
  [displayName |-> args.displayName, category |-> args.category, useLocationName |-> FALSE,
   locationCount |-> Len(locs), checksum |-> atpBrandData(args, locs)]

osmManifestEntry(args, locs) ==
  [displayName |-> args.displayName, category |-> args.category,
   locationCount |-> Len(locs), checksum |-> osmBrandData(args, locs), source |-> "osm"]

\* the filter and the map over data.features
atpLocations(args, features) ==
  LET kept == SelectSeq(features, LAMBDA f : keepFeature(f, args.filterBrand))
  IN  [i \in 1..Len(kept) |->
         toLocation(kept[i], args.displayName, cityAliases, zipcodeToCity, zipcodeToState)]

\* the for loop over data.elements
osmLocations(args, elements) ==
  osmLoop(elements, 1, args.useLocationName, [locations |-> <<>>, seen |-> {}]).locations

\* manifest.json as extract-brand.js rewrites it: the brand's entry and the time.
\* manifest.generated is the time of the run: later than the one it replaces
atpUpdatedManifest(args, locs, m) ==
  [brands |-> setKey(m.brands, args.brandKey, atpManifestEntry(args, locs)),
   generated |-> m.generated + 1]

\* manifest.json as extract-osm-brand.js rewrites it: the brand's entry, then the
\* brands in the order of their sorted keys
osmUpdatedManifest(args, locs, m) ==
  [m EXCEPT !.brands = sort(setKey(m.brands, args.brandKey, osmManifestEntry(args, locs)),
                            comparePairKeys)]

AtpAssemble ==
  /\ script = "atp" /\ pc = "start"
  /\ locations' = atpLocations(argv, input)
  /\ pc' = "assembled"
  /\ UNCHANGED <<argv, script, input, workers, batch, refVars, fileVars, reportVars, harnessVars>>

\* if (locations.length === 0) { ...; process.exit(1); }
AtpExitEmpty ==
  /\ script = "atp" /\ pc = "assembled"
  /\ Len(locations) = 0
  /\ pc' = "failed"
  /\ UNCHANGED <<argv, script, input, workers, batch, locations, refVars, fileVars, reportVars, harnessVars>>

\* the brand file written while the list may still be empty
AtpWriteBrandFileUnchecked ==
  /\ script = "atp" /\ pc = "assembled"
  /\ brandFiles' = (argv.brandKey :> atpBrandData(argv, locations)) @@ brandFiles
  /\ pc' = "written"
  /\ UNCHANGED <<argv, script, input, workers, batch, locations, manifest, refVars, reportVars, harnessVars>>

AtpWriteBrandFile ==
  /\ script = "atp" /\ pc = "assembled"
  /\ Len(locations) > 0
  /\ brandFiles' = (argv.brandKey :> atpBrandData(argv, locations)) @@ brandFiles
  /\ pc' = "written"
  /\ UNCHANGED <<argv, script, input, workers, batch, locations, manifest, refVars, reportVars, harnessVars>>

\* the manifest is read, changed and written back
AtpUpdateManifest ==
  /\ script = "atp" /\ pc = "written"
  /\ manifest' = atpUpdatedManifest(argv, locations, manifest)
  /\ pc' = "done"
  /\ UNCHANGED <<argv, script, input, workers, batch, locations, brandFiles, refVars, reportVars,
                 harnessVars>>

\* if (!data.elements || data.elements.length === 0) { ...; process.exit(1); }
OsmNoResults ==
  /\ script = "osm" /\ pc = "start"
  /\ Len(input) = 0
  /\ pc' = "failed"
  /\ UNCHANGED <<argv, script, input, workers, batch, locations, refVars, fileVars, reportVars, harnessVars>>

OsmAssemble ==
  /\ script = "osm" /\ pc = "start"
  /\ Len(input) > 0
  /\ locations' = osmLocations(argv, input)
  /\ pc' = "assembled"
  /\ UNCHANGED <<argv, script, input, workers, batch, refVars, fileVars, reportVars, harnessVars>>

OsmExitEmpty ==
  /\ script = "osm" /\ pc = "assembled"
  /\ Len(locations) = 0
  /\ pc' = "failed"
  /\ UNCHANGED <<argv, script, input, workers, batch, locations, refVars, fileVars, reportVars, harnessVars>>

\* locations.sort(...) and the brand file
OsmWriteBrandFile ==
  /\ script = "osm" /\ pc = "assembled"
  /\ Len(locations) > 0
  /\ locations' = sort(locations, compareLocations)
  /\ brandFiles' = (argv.brandKey :> osmBrandData(argv, locations')) @@ brandFiles
  /\ pc' = "written"
  /\ UNCHANGED <<argv, script, input, workers, batch, manifest, refVars, reportVars, harnessVars>>

\* the manifest is read, changed and written back
OsmUpdateManifest ==
  /\ script = "osm" /\ pc = "written"
  /\ manifest' = osmUpdatedManifest(argv, locations, manifest)
  /\ pc' = "done"
  /\ UNCHANGED <<argv, script, input, workers, batch, locations, brandFiles, refVars, reportVars,
                 harnessVars>>

(***************************************************************************)
(* The validators over brand collections of every shape                    *)
(***************************************************************************)
\* the most locations of the generated brand file
MaxLocations == 2

\* A StateBoundaries.txt: Alaska's box crosses the 180th meridian, the boxes of New
\* Jersey and New York overlap (as the boxes of neighbouring states do), one row names
\* no state.
SampleBoundaryRows ==
  << <<"Alaska", 720000000, 510000000, -1300000000, 1790000000>>,
     <<"New Jersey", 413574230, 389285190, -738939790, -755596140>>,
     <<"New York", 450158500, 404961030, -718562140, -797621520>>,
     <<"Massachusetts", 428865890, 412379640, -699283930, -735081420>>,
     <<"Atlantis", 10, -10, 10, -10>> >>

\* Another one: no Alaska, a one-point box for New Jersey given twice (the later row
\* counts), New York before it.
OtherBoundaryRows ==
  << <<"New York", 450158500, 404961030, -718562140, -797621520>>,
     <<"New Jersey", 0, 0, 0, 0>>,
     <<"New Jersey", 400000000, 400000000, -745000000, -745000000>> >>

SampleZipRows ==
  << [state |-> "NJ", zipcode |-> "07024", city |-> "Fort Lee"],
     [state |-> "MA", zipcode |-> "02141", city |-> "Cambridge"],
     [state |-> "MA", zipcode |-> "02142", city |-> "Zcta 02142"],
     [state |-> "NY", zipcode |-> "10001", city |-> "New York"],
     [state |-> "AK", zipcode |-> "99501", city |-> "Anchorage"] >>

SampleOfficialCities == {<<"Washington", "DC">>, <<"Albany", "NY">>}

Loc(lat, lon, city, state) ==
  [lat |-> lat, lon |-> lon, city |-> city, state |-> state, address |-> "1 Main St",
   name |-> ""]

\* Locations as the extractors write them (coordinates of at most 6 decimals): inside a
\* box, on each edge of it, just outside each edge, inside two boxes, inside none.
GeoSamples ==
  { Loc(400000000, -745000000, "Hammonton", "NJ"),
    Loc(413574230, -745000000, "Montague", "NJ"),
    Loc(413574240, -745000000, "Fort Lee", "NJ"),
    Loc(389285190, -745000000, "Cape May", "NJ"),
    Loc(389285180, -745000000, "Cape May", "NJ"),
    Loc(400000000, -738939790, "Mantoloking", "NJ"),
    Loc(400000000, -738939780, "Mantoloking", "NJ"),
    Loc(400000000, -755596140, "Pennsville", "NJ"),
    Loc(400000000, -755596150, "Pennsville", "NJ"),
    Loc(408509000, -739701000, "Fort Lee", "NJ"),
    Loc(610000000, 1795000000, "Attu Station", "AK"),
    Loc(610000000, 0, "Anchorage", "AK"),
    Loc(610000000, 1790000000, "Anchorage", "AK"),
    Loc(610000000, 1789999990, "Anchorage", "AK"),
    Loc(610000000, -1300000000, "Hyder Twp", "AK"),
    Loc(423736000, -711097000, "Cambridge", "MA") }

RECURSIVE SeqsUpTo(_, _)
SeqsUpTo(S, n) ==
  IF n = 0 THEN {<<>>}
  ELSE SeqsUpTo(S, n - 1) \cup {Append(q, x) : q \in {r \in SeqsUpTo(S, n - 1) : Len(r) = n - 1}, x \in S}

\* the locations around New Jersey's box, the ones around Alaska's, and a few for the
\* other boundary file
AroundNewJersey ==
  { l \in GeoSamples : l.state \in {"NJ", "MA"} }

AroundAlaska ==
  { l \in GeoSamples : l.state = "AK" \/ l.city \in {"Hammonton", "Fort Lee", "Cambridge"} }

AroundThePoint ==
  { l \in GeoSamples : l.city \in {"Hammonton", "Montague", "Fort Lee", "Cambridge"}
                          \/ l.lon = 0 }

\* each run of the validators: the boundary file and the locations the brand file is made of
GeoRuns ==
  { [rows |-> SampleBoundaryRows, records |-> AroundNewJersey],
    [rows |-> SampleBoundaryRows, records |-> AroundAlaska],
    [rows |-> OtherBoundaryRows, records |-> AroundThePoint] }

Collection(key, displayName, source, locs) ==
  [key |-> key, displayName |-> displayName, category |-> "store",
   useLocationName |-> FALSE, source |-> source, locations |-> locs]

\* a brand file that is there whatever the run
ZetaFile ==
  Collection("zeta", "Zeta", "osm",
             << Loc(389000000, -770300000, "Washington", "DC"),
                Loc(426500000, -737500000, "Albany", "NJ"),
                Loc(408509000, -739701000, "Fort Lee", "MA"),
                Loc(100000000, 100000000, "", "NJ"),
                Loc(423736000, -711097000, "Cambridge", ""),
                Loc(455000000, -735700000, "Montréal", "QC"),
                Loc(468000000, -712000000, "", "QC"),
                Loc(390826000, -748238000, "Cape May Court House", "NJ") >>)

NoArgv ==
  [brandKey |-> "", displayName |-> "", category |-> "", filterBrand |-> "",
   useLocationName |-> FALSE]

InitGeo ==
  /\ cityAliases = NoAliases
  /\ zipcodeToCity = EmptyMap
  /\ zipcodeToState = EmptyMap
  /\ validCities = loadValidCities(SampleZipRows, SampleOfficialCities)
  /\ argv = NoArgv
  /\ script = "none"
  /\ pc = "idle"
  /\ input = <<>>
  /\ locations = <<>>
  /\ workers = <<>>
  /\ batch = NoBatch
  /\ \E run \in GeoRuns :
       /\ boundaries = loadedBoundaries(run.rows)
       /\ \E locs \in SeqsUpTo(run.records, MaxLocations) :
            brandFiles = ("acme" :> Collection("acme", "Acme", "", locs)) @@ ("zeta" :> ZetaFile)
  /\ manifest = EmptyManifest
  /\ stateErrors = NoReport
  /\ badLocations = NoReport
  /\ hCity = ""
  /\ hState = ""
  /\ hStage = "raw"
  /\ hInput = ""
  /\ hFirst = ""

NextGeo == ValidateStateBoundaries \/ ValidateCities

SpecGeo == InitGeo /\ [][NextGeo]_vars

\* whether the boundary report holds an entry for this location of this brand
Flagged(brandKey, loc) ==
  \E j \in 1..Len(stateErrors.lines) :
    /\ stateErrors.lines[j].brand = brandKey
    /\ stateErrors.lines[j].statedState = loc.state
    /\ stateErrors.lines[j].lat = loc.lat
    /\ stateErrors.lines[j].lon = loc.lon
    /\ stateErrors.lines[j].address = loc.address
    /\ stateErrors.lines[j].city = (IF loc.city # "" THEN loc.city ELSE "(empty)")

\* every location of every brand file, with its brand key
AllLocations ==
  UNION {{<<k, brandFiles[k].locations[i]>> : i \in 1..Len(brandFiles[k].locations)} :
           k \in DOMAIN brandFiles}

Wraps(bounds) == bounds.west > 0 /\ bounds.east < 0

\* whether a location lies strictly beyond one of the four edges of a box
BeyondAnEdge(loc, bounds) ==
  \/ loc.lat > bounds.north
  \/ loc.lat < bounds.south
  \/ loc.lon > bounds.east
  \/ loc.lon < bounds.west

\* C1: once the boundary validator has run, a location whose stated state has a box that
\* does not wrap the antimeridian is in the report if and only if lat > north or
\* lat < south or lon > east or lon < west; a point on an edge is not in the report.
C1_FlaggedIffOutsideBox ==
  stateErrors.written =>
    LET bs == boundaries
    IN  \A kl \in AllLocations :
          hasKey(bs, kl[2].state) =>
            LET bounds == getKey(bs, kl[2].state)
            IN  ~Wraps(bounds) => (Flagged(kl[1], kl[2]) <=> BeyondAnEdge(kl[2], bounds))

\* A location on the north edge of New Jersey's box is not flagged, the one a millionth
\* of a degree north of it is.
C1_Witness ==
  /\ stateErrors.written
  /\ boundaries = loadedBoundaries(SampleBoundaryRows)
  /\ \E kl \in AllLocations :
       kl[2].state = "NJ" /\ kl[2].lat = SampleBoundaryRows[2][2] /\ ~Flagged(kl[1], kl[2])
  /\ \E kl \in AllLocations :
       kl[2].state = "NJ" /\ kl[2].lat = SampleBoundaryRows[2][2] + 10 /\ Flagged(kl[1], kl[2])

\* C2: for a box with west > 0 and east < 0, a location is classified as inside (not
\* flagged) if and only if south <= lat <= north and (lon >= west or lon <= east).
C2_WrappingBox ==
  stateErrors.written =>
    LET bs == boundaries
    IN  \A kl \in AllLocations :
          hasKey(bs, kl[2].state) =>
            LET bounds == getKey(bs, kl[2].state)
            IN  Wraps(bounds) =>
                  (~Flagged(kl[1], kl[2]) <=>
                     /\ bounds.south <= kl[2].lat
                     /\ kl[2].lat <= bounds.north
                     /\ (kl[2].lon >= bounds.west \/ kl[2].lon <= bounds.east))

\* With west = 179.0, east = -130.0, north = 72, south = 51: the point (61, 179.5) is
\* inside and the point (61, 0) is outside.
C2_Witness ==
  /\ stateErrors.written
  /\ hasKey(boundaries, "AK")
  /\ getKey(boundaries, "AK").west = 1790000000 /\ getKey(boundaries, "AK").east = -1300000000
  /\ getKey(boundaries, "AK").north = 720000000 /\ getKey(boundaries, "AK").south = 510000000
  /\ \E kl \in AllLocations :
       kl[2].state = "AK" /\ kl[2].lat = 610000000 /\ kl[2].lon = 1795000000
         /\ ~Flagged(kl[1], kl[2])
  /\ \E kl \in AllLocations :
       kl[2].state = "AK" /\ kl[2].lat = 610000000 /\ kl[2].lon = 0 /\ Flagged(kl[1], kl[2])

\* C10: a step of either validator leaves every brand collection (and the manifest) as
\* it was, whether or not it flags a location; only the reports change.
C10_ValidatorsOnlyReport == [][brandFiles' = brandFiles /\ manifest' = manifest]_vars

\* Both reports are written, both flag a location, and the location is still in its
\* brand file.
C10_Witness ==
  /\ stateErrors.written /\ badLocations.written
  /\ \E kl \in AllLocations :
       /\ Flagged(kl[1], kl[2])
       /\ \E j \in 1..Len(badLocations.lines) :
            badLocations.lines[j].brand = kl[1] /\ badLocations.lines[j].lat = kl[2].lat


\* the locations of the brand files whose state has no box in the table
Unmapped == {kl \in AllLocations : ~hasKey(boundaries, kl[2].state)}

\* the places (brand key, index) of the locations of the brand files
Places ==
  UNION {{<<k, i>> : i \in 1..Len(brandFiles[k].locations)} : k \in DOMAIN brandFiles}

UnmappedPlaces ==
  {p \in Places : ~hasKey(boundaries, brandFiles[p[1]].locations[p[2]].state)}

MappedPlaces ==
  {p \in Places : hasKey(boundaries, brandFiles[p[1]].locations[p[2]].state)}

\* C14: once the boundary validator has run, no location whose state has no entry in
\* the bounding-box table (an empty state, a province, an unknown code) is in the
\* report, whatever its coordinates; the counter of skipped locations counts exactly
\* these locations and the rest of the total are the validated ones.
C14_UnmappedSkipped ==
  stateErrors.written =>
    /\ \A kl \in Unmapped : ~Flagged(kl[1], kl[2])
    /\ stateErrors.skipped = Cardinality(UnmappedPlaces)
    /\ stateErrors.total - stateErrors.skipped = Cardinality(MappedPlaces)

\* Locations with an empty state, with state "QC" and, under a table without Alaska,
\* with state "AK" at a point in no box are skipped and not reported.
C14_Witness ==
  /\ stateErrors.written
  /\ ~hasKey(boundaries, "AK")
  /\ \E kl \in Unmapped : kl[2].state = "" /\ ~Flagged(kl[1], kl[2])
  /\ \E kl \in Unmapped : kl[2].state = "QC" /\ ~Flagged(kl[1], kl[2])
  /\ \E kl \in Unmapped : kl[2].state = "AK" /\ kl[2].lon = 0 /\ ~Flagged(kl[1], kl[2])
  /\ stateErrors.skipped >= 3

\* the states of the bounding-box table whose box holds the point
StatesHolding(lat, lon) ==
  {boundaries[i][1] : i \in {j \in 1..Len(boundaries) :
                               isInState(lat, lon, boundaries[j][2])}}

\* C15: in every entry of the boundary report the actual-state field is "NONE" if and
\* only if no box of the table holds the entry's point, and otherwise its parts between
\* the "/" are exactly the states whose box holds the point, each once.
C15_ActualStatesExact ==
  stateErrors.written =>
    \A j \in 1..Len(stateErrors.lines) :
      LET e == stateErrors.lines[j]
          holding == StatesHolding(e.lat, e.lon)
          parts == split(e.actualStates, "/")
      IN  /\ (e.actualStates = "NONE") <=> (holding = {})
          /\ holding # {} =>
               /\ SeqToSet(parts) = holding
               /\ Len(parts) = Cardinality(holding)

\* The report holds an entry with "NONE" and an entry with the two states "NJ/NY".
C15_Witness ==
  /\ stateErrors.written
  /\ \E j \in 1..Len(stateErrors.lines) :
       stateErrors.lines[j].actualStates = "NONE" /\ stateErrors.lines[j].statedState = "AK"
  /\ \E j \in 1..Len(stateErrors.lines) :
       stateErrors.lines[j].actualStates = "NJ/NY" /\ stateErrors.lines[j].statedState = "MA"

\* whether the city report holds an entry for this location of this brand
CityReported(brandKey, loc) ==
  \E j \in 1..Len(badLocations.lines) :
    /\ badLocations.lines[j].brand = brandKey
    /\ badLocations.lines[j].state = loc.state
    /\ badLocations.lines[j].lat = loc.lat
    /\ badLocations.lines[j].lon = loc.lon
    /\ badLocations.lines[j].address = loc.address
    /\ badLocations.lines[j].city = (IF loc.city # "" THEN loc.city ELSE "(empty)")

InValidCitySet(city, state) ==
  \/ cityKey(city, state) \in validCities
  \/ cityKey(simplifyCity(city), state) \in validCities

\* The statement of C17 as the specification has it: reported if and only if the pair
\* is absent from the set in both forms or the city matches a pattern of bad data, also
\* when the pair is in the set.
C17_Original ==
  badLocations.written =>
    \A kl \in AllLocations :
      (kl[2].city # "" /\ kl[2].state \notin CANADIAN_PROVINCES) =>
        (CityReported(kl[1], kl[2]) <=>
           (~InValidCitySet(kl[2].city, kl[2].state) \/ matchesBadPattern(kl[2].city)))

\* C17: once the city validator has run, a location with a city that is not empty and a
\* state that is not a Canadian province is in the report if and only if its
\* (city, state) pair is absent from the set of valid cities both as it is and with the
\* suffix stripped; a city of the set that matches a pattern of bad data is not reported.
C17_ReportedIffAbsent ==
  badLocations.written =>
    \A kl \in AllLocations :
      (kl[2].city # "" /\ kl[2].state \notin CANADIAN_PROVINCES) =>
        (CityReported(kl[1], kl[2]) <=> ~InValidCitySet(kl[2].city, kl[2].state))

\* "Cape May Court House", NJ has four words and is in the set: not reported.
\* "Hyder Twp", AK ends in a truncation suffix and is not in the set: reported.
C17_Witness ==
  /\ badLocations.written
  /\ \E kl \in AllLocations :
       /\ kl[2].city = "Cape May Court House" /\ kl[2].state = "NJ"
       /\ matchesBadPattern(kl[2].city)
       /\ InValidCitySet(kl[2].city, kl[2].state)
       /\ ~CityReported(kl[1], kl[2])
  /\ \E kl \in AllLocations :
       /\ kl[2].city = "Hyder Twp" /\ kl[2].state = "AK"
       /\ matchesBadPattern(kl[2].city)
       /\ CityReported(kl[1], kl[2])

\* the verdict of the city validator without its patterns of bad data
AbsentOrBlank(city, state) ==
  \/ trim(city) = ""
  \/ state \notin CANADIAN_PROVINCES /\ ~InValidCitySet(city, state)

\* C29: the patterns of bad data do not change the verdict of the city validator.  A
\* location with a city that is not empty and a state that is not a Canadian province
\* is reported exactly when its (city, state) pair is absent from the set of valid
\* cities as it is and with the suffix stripped, whether its city matches a pattern or
\* not; a location whose city is empty or blank is reported in any state.
C29_PatternsChangeNoVerdict ==
  badLocations.written =>
    \A kl \in AllLocations :
      /\ trim(kl[2].city) = "" => CityReported(kl[1], kl[2])
      /\ (kl[2].city # "" /\ kl[2].state \notin CANADIAN_PROVINCES) =>
           /\ CityReported(kl[1], kl[2]) <=> AbsentOrBlank(kl[2].city, kl[2].state)
           /\ matchesBadPattern(kl[2].city) =>
                (CityReported(kl[1], kl[2]) <=> ~InValidCitySet(kl[2].city, kl[2].state))

\* The report holds a city that matches no pattern and leaves out one that matches a
\* pattern, and it holds a location without city.
C29_Witness ==
  /\ badLocations.written
  /\ \E kl \in AllLocations :
       /\ kl[2].city # "" /\ kl[2].state \notin CANADIAN_PROVINCES
       /\ ~matchesBadPattern(kl[2].city) /\ CityReported(kl[1], kl[2])
  /\ \E kl \in AllLocations :
       /\ kl[2].state \notin CANADIAN_PROVINCES
       /\ matchesBadPattern(kl[2].city) /\ ~CityReported(kl[1], kl[2])
  /\ \E kl \in AllLocations : kl[2].city = "" /\ CityReported(kl[1], kl[2])
(***************************************************************************)
(* The normalizer on its own: cleanCity and normalizeCity applied to a     *)
(* city string, once and then again on their own output                    *)
(***************************************************************************)
\* the most words of a generated city string
MaxWords == 2

CityWords == <<"NYC", "Lees", "Summit", "Mt", "Harris", "MA">>

RECURSIVE WordStrings(_)
WordStrings(n) ==
  IF n = 0 THEN {}
  ELSE {CityWords[i] : i \in 1..Len(CityWords)}
         \cup {w \o " " \o CityWords[i] : w \in WordStrings(n - 1), i \in 1..Len(CityWords)}

SampleCities ==
  { "", "New York", "Newyork", "Bronx", "Mt. Shasta", "Lee's Summit", "St Johns", "St. John's",
    "Beltsville Prince George", "beltsville prince george", "BELTSVILLE", "Beltsville",
    "Lee's Summit Jackson", "Ft. Meade", "Silver Spring Montgomery", "FORT LEE",
    "E Brunswick", "N. Augusta", "Saint Paul", "St Louis", "Warm Spgs", "Mc Allen", "mckinney",
    "O Fallon", "Coeur D Alene", "Ft Worth", "Forth Worth", "Mt. Vernon", "Kansas Cty",
    "Pheonix", "Smithvile", "fond du lac", "KING OF PRUSSIA", "Carmel-By-The-Sea",
    "Houston Harris", "Houston Harris Harris", "Denver Denver", "Walla Walla",
    "Cambridge MA 02141", "Cambridge MA MA", "Boston USA", "Montreal", "montréal",
    "Mt Airy Carroll", "Fort Wayne", "Lake Harris", "Austin Travis Harris" }

CityInputs == SampleCities \cup WordStrings(MaxWords)
StateInputs == {"", "MD", "NY", "MO", "CA"}

\* an alias file whose null entries include cities that later stages would rewrite, and
\* with a canonical city, "Mt Airy", that the general rules would rewrite
SampleAliases ==
  ("MD" :> ( ("Beltsville Prince George" :> NullAlias)
             @@ ("Ft. Meade" :> NullAlias)
             @@ ("BELTSVILLE" :> NullAlias)
             @@ ("Silver Spring Montgomery" :> AliasTo("Silver Spring"))
             @@ ("Mt Airy Carroll" :> AliasTo("Mt Airy")) ))
  @@ ("NY" :> ( ("New York" :> NullAlias) @@ ("Mt" :> AliasTo("Mount Vernon")) ))
  @@ ("MO" :> ( ("Lee's Summit Jackson" :> NullAlias) @@ ("Summit" :> NullAlias) ))
AliasTables == {NoAliases, SampleAliases}

InitNorm ==
  /\ cityAliases \in AliasTables
  /\ zipcodeToCity = EmptyMap
  /\ zipcodeToState = EmptyMap
  /\ boundaries = <<>>
  /\ validCities = {}
  /\ argv = NoArgv
  /\ script = "none"
  /\ pc = "idle"
  /\ input = <<>>
  /\ locations = <<>>
  /\ workers = <<>>
  /\ batch = NoBatch
  /\ brandFiles = EmptyMap
  /\ manifest = EmptyManifest
  /\ stateErrors = NoReport
  /\ badLocations = NoReport
  /\ hCity \in CityInputs
  /\ hState \in StateInputs
  /\ hStage = "raw"
  /\ hInput = ""
  /\ hFirst = ""

\* const cleanedCity = cleanCity(city), on a raw city or on the pipeline's own output
Clean ==
  /\ hStage \in {"raw", "normalized"}
  /\ hCity' = cleanCity(hCity)
  /\ hStage' = IF hStage = "raw" THEN "cleaned" ELSE "recleaned"
  /\ UNCHANGED <<hState, hInput, hFirst>>
  /\ UNCHANGED <<refVars, runVars, fileVars, reportVars>>

\* cleanCity applied to its own result
CleanAgain ==
  /\ hStage = "cleaned"
  /\ hFirst' = hCity
  /\ hCity' = cleanCity(hCity)
  /\ hStage' = "cleanedTwice"
  /\ UNCHANGED <<hState, hInput>>
  /\ UNCHANGED <<refVars, runVars, fileVars, reportVars>>

\* const normalizedCity = normalizeCity(cleanedCity, state)
Normalize ==
  /\ hStage \in {"cleaned", "recleaned"}
  /\ hInput' = hCity
  /\ hCity' = normalizeCity(cityAliases, hCity, hState)
  /\ hStage' = IF hStage = "cleaned" THEN "normalized" ELSE "renormalized"
  /\ hFirst' = IF hStage = "cleaned" THEN hCity' ELSE hFirst
  /\ UNCHANGED hState
  /\ UNCHANGED <<refVars, runVars, fileVars, reportVars>>

\* normalizeCity(city, state) called on a city that was not cleaned first
NormalizeRaw ==
  /\ hStage = "raw"
  /\ hInput' = hCity
  /\ hCity' = normalizeCity(cityAliases, hCity, hState)
  /\ hStage' = "direct"
  /\ UNCHANGED <<hState, hFirst>>
  /\ UNCHANGED <<refVars, runVars, fileVars, reportVars>>

\* the first two steps of cleanCity on their own: the repeated city collapsed, then the
\* loop over COUNTY_NAMES
CleanCounty ==
  /\ hStage = "raw"
  /\ hCity # ""
  /\ hInput' = collapseRepeated(hCity)
  /\ hCity' = stripTrailingCounty(collapseRepeated(hCity))
  /\ hStage' = "countyStripped"
  /\ UNCHANGED <<hState, hFirst>>
  /\ UNCHANGED <<refVars, runVars, fileVars, reportVars>>

NextNorm == Clean \/ CleanAgain \/ Normalize \/ NormalizeRaw \/ CleanCounty

SpecNorm == InitNorm /\ [][NextNorm]_vars

NormalizedStages == {"normalized", "renormalized", "direct"}

\* whether the alias table maps (c, st) to null
HasNullEntry(aliases, c, st) ==
  st \in DOMAIN aliases /\ c \in DOMAIN aliases[st] /\ aliases[st][c].null

\* C4 as stated: whenever the alias table maps the (city, state) passed to normalizeCity
\* to null, the result is the empty string.
C4_Original ==
  (hStage \in NormalizedStages /\ HasNullEntry(cityAliases, hInput, hState)) => hCity = ""

\* C4 as amended: whenever the state is not empty and the alias table maps the
\* case-repaired city (the city after the normalizer's first stage) under that state to
\* null, normalizeCity returns the empty string, whatever the later stages would produce.
C4_NullAliasShortCircuit ==
  (/\ hStage \in NormalizedStages
   /\ hInput # ""
   /\ hState # ""
   /\ HasNullEntry(cityAliases, caseRepair(hInput), hState)) => hCity = ""

\* The spec's example: "Beltsville Prince George" in MD, mapped to null, gives "".
C4_Witness ==
  /\ hStage = "direct"
  /\ hInput = "Beltsville Prince George"
  /\ hState = "MD"
  /\ HasNullEntry(cityAliases, hInput, hState)
  /\ hCity = ""

\* C5: the clean-then-normalize pipeline, run again on its own output, returns the
\* same city: normalizeCity(cleanCity(y), s) = y for y = normalizeCity(cleanCity(x), s).
C5_Idempotent == hStage = "renormalized" => hCity = hFirst


\* C18: cleanCity applied to its own result returns it unchanged:
\* cleanCity(cleanCity(x)) = cleanCity(x) for every city string x.
C18_CleanIdempotent == hStage = "cleanedTwice" => hCity = hFirst

\* whether the alias table maps (c, st) to a canonical city
HasCanonicalEntry(aliases, c, st) ==
  st \in DOMAIN aliases /\ c \in DOMAIN aliases[st] /\ ~aliases[st][c].null

\* C19: when the alias table maps the city that normalizeCity looks up, under the state
\* passed to it, to a canonical city c, the result of normalizeCity is not c as the
\* general rules (directions, Ft/Mt, Hgts/Spgs, Cty/Ciy, typos, vile) rewrite it.
C19_AliasResultNotRewritten ==
  (/\ hStage \in NormalizedStages
   /\ hInput # ""
   /\ hState # ""
   /\ HasCanonicalEntry(cityAliases, caseRepair(hInput), hState)) =>
    LET c == cityAliases[hState][caseRepair(hInput)].city
    IN  generalRules(c) # c => hCity # generalRules(c)

(***************************************************************************)
(* The county-stripping step of cleanCity                                  *)
(***************************************************************************)
\* the indices of the county names that end the city, after white space
CountyMatches(city) ==
  {i \in 1..Len(COUNTY_NAMES) : CountyRegexTest(city, COUNTY_NAMES[i])}

\* C26: the county-stripping step of cleanCity, on the city after the collapse of a
\* repeated city, changes the string only if the city is on neither allow-list (the
\* protected compounds, the Summit cities), a county name ends it, and what precedes
\* the first such county of the list is at least 4 characters long and is not a bare
\* prefix word; the result is then that prefix, with one county name removed, and a
\* compound county name is the one removed whenever one matches.  In every other case
\* the step returns the string unchanged.
C26_CountyStrippedUnderGuards ==
  hStage = "countyStripped" =>
    LET hits == CountyMatches(hInput)
    IN  IF hits = {} \/ isProtected(hInput) THEN hCity = hInput
        ELSE LET county == COUNTY_NAMES[MinOf(hits)]
                 prefix == trim(SubSeq(hInput, 1, Len(hInput) - Len(county)))
                 guards == /\ Len(prefix) >= 4
                           /\ toLowerCase(prefix) \notin SeqToSet(INVALID_SINGLE_WORDS)
             IN  /\ hCity = IF guards THEN prefix ELSE hInput
                 /\ (\E j \in hits : includes(COUNTY_NAMES[j], " ")) => includes(county, " ")
                 /\ guards => CountyRegexTest(SubSeq(hInput, Len(prefix) + 1, Len(hInput)),
                                              county)

\* "Austin Travis Harris" loses Harris, and Harris only.
C26_Witness ==
  /\ hStage = "countyStripped"
  /\ hInput = "Austin Travis Harris"
  /\ hCity = "Austin Travis"
(***************************************************************************)
(* The pipeline: one run of an extractor, then the validators              *)
(***************************************************************************)
\* the most features (or elements) of the input of a run
MaxFeatures == 2

Tags(pairs) == [k \in TAG_KEYS |-> IF hasKey(pairs, k) THEN getKey(pairs, k) ELSE ""]

Feature(lat, lon, pairs) ==
  [hasGeometry |-> TRUE, lat |-> lat, lon |-> lon, properties |-> Tags(pairs)]

\* The features of an AllThePlaces file.  Coordinates are in units of 1e-7 degree.
CambridgeRecord ==
  Feature(423736000, -711097000,
          << <<"name", "Acme Store">>, <<"addr:full", "123 Main St, Cambridge, MA 02141">> >>)

CambridgeWithPostcode ==
  Feature(423751000, -711056000,
          << <<"name", "Acme Store">>, <<"addr:full", "123 Main St, Cambridge, MA 02141">>,
             <<"addr:postcode", "02141">> >>)

FortLeeTags == << <<"city", "FORT LEE">>, <<"state", "NJ">> >>
\* in Albany: inside New York's box only
FortLeeInAlbany == Feature(426526000, -737562000, FortLeeTags)
\* in Manhattan: inside the boxes of New York and of New Jersey
FortLeeInManhattan == Feature(407128000, -740060000, FortLeeTags)
\* near Canaan, NY: inside the boxes of New York and of Massachusetts
FortLeeInCanaan == Feature(425000000, -734000000, FortLeeTags)
\* 0.00000004 degree north of New Jersey's box, inside New York's
FortLeeAtEdge == Feature(413574234, -745000000, FortLeeTags)

\* a state tag, no city tag, and the postcode of another state's city
TaggedNJWithNYPostcode ==
  Feature(407000000, -740500000, << <<"addr:state", "NJ">>, <<"addr:postcode", "10001">> >>)

\* a latitude of 95 degrees, no country and no state
AtpBeyondThePole ==
  Feature(950000000, -740000000, << <<"addr:city", "Hoboken">> >>)

\* the sentinel of the scrapers' test fixtures, in lower case
LowerCaseTestRecord ==
  Feature(335000000, -868000000, << <<"city", "test">>, <<"state", "AL">> >>)

\* Manor, TX in the city tag, and in the name
TaggedManor ==
  Feature(303400000, -975500000, << <<"city", "Manor">>, <<"state", "TX">> >>)

NamedManor ==
  Feature(303500000, -975600000, << <<"name", "Acme Store of Manor">> >>)

\* the state's full name in the state tag
AtpFullStateName ==
  Feature(407440000, -740320000, << <<"addr:city", "Hoboken">>, <<"addr:state", "New Jersey">> >>)

NoTags == Feature(391000000, -751000000, <<>>)

UnknownPostcode == Feature(392000000, -752000000, << <<"postcode", "99999">> >>)

NamedAfterNumber == Feature(393000000, -753000000, << <<"name", "Acme of 12">> >>)

AtpToronto ==
  Feature(436500000, -793800000,
          << <<"addr:country", "CA">>, <<"addr:city", "Toronto">>, <<"addr:state", "ON">> >>)

WithoutGeometry ==
  [hasGeometry |-> FALSE, lat |-> 0, lon |-> 0,
   properties |-> Tags(<< <<"city", "Trenton">>, <<"state", "NJ">> >>)]

OtherBrandInNewark ==
  Feature(407357000, -741724000,
          << <<"brand", "Other">>, <<"addr:city", "Newark">>, <<"addr:state", "NJ">>,
             <<"addr:street_address", "9 Broad St">> >>)

RitasOfEmmaus ==
  Feature(405396000, -754906000,
          << <<"brand", "Acme">>, <<"name", "Rita's of Emmaus PA">>,
             <<"website", "https://ritasice.com/location/ritas-of-emmaus-pa/">> >>)

\* The features of the AllThePlaces files, one set for each run
AddressedFeatures ==
  { CambridgeRecord, CambridgeWithPostcode,
    FortLeeInAlbany, FortLeeInManhattan, FortLeeInCanaan, FortLeeAtEdge, WithoutGeometry }

BrandedFeatures ==
  { RitasOfEmmaus, OtherBrandInNewark, CambridgeRecord, NoTags, NamedAfterNumber, AtpToronto }

OddFeatures ==
  { RitasOfEmmaus, TaggedNJWithNYPostcode, AtpBeyondThePole, LowerCaseTestRecord,
    TaggedManor, NamedManor, AtpFullStateName }

BareFeatures ==
  { NoTags, UnknownPostcode, NamedAfterNumber, AtpToronto, OtherBrandInNewark, WithoutGeometry }

Node(lat, lon, pairs) ==
  [type |-> "node", lat |-> lat, lon |-> lon, hasCenter |-> FALSE,
   center |-> [lat |-> 0, lon |-> 0], tags |-> Tags(pairs)]

Way(hasCenter, lat, lon, pairs) ==
  [type |-> "way", lat |-> 0, lon |-> 0, hasCenter |-> hasCenter,
   center |-> [lat |-> lat, lon |-> lon], tags |-> Tags(pairs)]

\* the two records of the deduplication example
FirstOfPair ==
  Node(400000100, -740000100,
       << <<"addr:city", "Hoboken">>, <<"addr:state", "nj">>, <<"addr:housenumber", "1">>,
          <<"addr:street", "Main St">>, <<"name", "Acme Hoboken">> >>)

SecondOfPair ==
  Node(400000400, -740000200,
       << <<"addr:city", "Jersey City">>, <<"addr:state", "NJ">>,
          <<"addr:street", "Grove St">> >>)

\* a longitude of -200 degrees
OsmBeyondTheDateLine ==
  Node(400000000, -2000000000, << <<"addr:city", "Hoboken">>, <<"addr:state", "NJ">> >>)

\* tagged as Mexico, inside the rough US/Canada box
OsmTijuana ==
  Node(325000000, -1170000000, << <<"addr:city", "Tijuana">>, <<"addr:country", "MX">> >>)

OsmFullStateName ==
  Node(407440000, -740320000, << <<"addr:city", "Hoboken">>, <<"addr:state", "New Jersey">> >>)

UnionCityWay == Way(TRUE, 400000449, -740000249, << <<"city", "Union City">> >>)

Weehawken == Node(400000600, -740000100, << <<"addr:city", "Weehawken">>, <<"state", "NJ">> >>)

WayWithoutCenter == Way(FALSE, 0, 0, << <<"addr:city", "Trenton">>, <<"addr:state", "NJ">> >>)

OnTheEquator == Node(0, -740000000, << <<"addr:city", "Quito">>, <<"addr:country", "US">> >>)

OsmLondon == Node(515074000, -1278000, << <<"addr:city", "London">>, <<"addr:country", "GB">> >>)

OsmToronto ==
  Node(436532000, -793832000,
       << <<"addr:city", "Toronto">>, <<"addr:country", "CA">>,
          <<"addr:full", "100 Queen St W">>, <<"branch", "City Hall">> >>)

\* The elements of the Overpass answers, one set for each run
NearbyElements ==
  { FirstOfPair, SecondOfPair, UnionCityWay, Weehawken, WayWithoutCenter, OnTheEquator }

FarElements ==
  { FirstOfPair, OsmLondon, OsmToronto, OsmBeyondTheDateLine, OsmTijuana, OsmFullStateName }

\* the brand file and the manifest entry that an earlier run of the brand left
OldAcmeFile ==
  Collection("acme", "Acme", "", << Loc(402000000, -744000000, "Princeton", "NJ") >>)

OldAcmeEntry ==
  [displayName |-> "Acme", category |-> "store", useLocationName |-> FALSE,
   locationCount |-> 1, checksum |-> OldAcmeFile]

ZetaEntry ==
  [displayName |-> "Zeta", category |-> "store", locationCount |-> Len(ZetaFile.locations),
   checksum |-> ZetaFile, source |-> "osm"]

\* the brand files and the manifest before the run: without and with the run's brand
WithoutAcme ==
  [files |-> ("zeta" :> ZetaFile),
   manifest |-> [brands |-> << <<"zeta", ZetaEntry>> >>, generated |-> 1]]

WithAcme ==
  [files |-> ("zeta" :> ZetaFile) @@ ("acme" :> OldAcmeFile),
   manifest |-> [brands |-> << <<"zeta", ZetaEntry>>, <<"acme", OldAcmeEntry>> >>,
                 generated |-> 1]]

Argv(filterBrand, useLocationName) ==
  [brandKey |-> "acme", displayName |-> "Acme", category |-> "store",
   filterBrand |-> filterBrand, useLocationName |-> useLocationName]

\* the runs: a command line, what is on disk before it, and what the input is made of
AtpRuns ==
  { [argv |-> Argv("", FALSE), before |-> WithAcme, records |-> AddressedFeatures],
    [argv |-> Argv("Acme", FALSE), before |-> WithoutAcme, records |-> BrandedFeatures],
    [argv |-> Argv("", FALSE), before |-> WithoutAcme, records |-> OddFeatures],
    [argv |-> Argv("", FALSE), before |-> WithAcme, records |-> BareFeatures] }

OsmRuns ==
  { [argv |-> Argv("", FALSE), before |-> WithAcme, records |-> NearbyElements],
    [argv |-> Argv("", TRUE), before |-> WithoutAcme, records |-> FarElements] }

Init ==
  /\ cityAliases = SampleAliases
  /\ zipcodeToCity = loadZipcodeToCity(SampleZipRows)
  /\ zipcodeToState = loadZipcodeToState(SampleZipRows)
  /\ boundaries = loadedBoundaries(SampleBoundaryRows)
  /\ validCities = loadValidCities(SampleZipRows, SampleOfficialCities)
  /\ \/ /\ script = "atp"
        /\ \E run \in AtpRuns :
             /\ input \in SeqsUpTo(run.records, MaxFeatures)
             /\ argv = run.argv /\ brandFiles = run.before.files /\ manifest = run.before.manifest
     \/ /\ script = "osm"
        /\ \E run \in OsmRuns :
             /\ input \in SeqsUpTo(run.records, MaxFeatures)
             /\ argv = run.argv /\ brandFiles = run.before.files /\ manifest = run.before.manifest
  /\ pc = "start"
  /\ locations = <<>>
  /\ workers = <<>>
  /\ batch = NoBatch
  /\ stateErrors = NoReport
  /\ badLocations = NoReport
  /\ hCity = ""
  /\ hState = ""
  /\ hStage = "raw"
  /\ hInput = ""
  /\ hFirst = ""

Next ==
  \/ AtpAssemble
  \/ AtpExitEmpty
  \/ AtpWriteBrandFile
  \/ AtpUpdateManifest
  \/ OsmNoResults
  \/ OsmAssemble
  \/ OsmExitEmpty
  \/ OsmWriteBrandFile
  \/ OsmUpdateManifest
  \/ ValidateStateBoundaries
  \/ ValidateCities

Spec == Init /\ [][Next]_vars

(***************************************************************************)
(* Properties of the pipeline                                              *)
(***************************************************************************)
\* the indices of the assembled locations at these coordinates
LocationsAt(lat, lon) ==
  {k \in 1..Len(locations) : locations[k].lat = lat /\ locations[k].lon = lon}

\* the entries of the boundary report for the run's brand at these coordinates
ReportedAt(lat, lon) ==
  {j \in 1..Len(stateErrors.lines) :
     /\ stateErrors.lines[j].brand = argv.brandKey
     /\ stateErrors.lines[j].lat = lat
     /\ stateErrors.lines[j].lon = lon}

\* the extractor has built its list of locations
Assembled == pc \in {"assembled", "written", "done"}

\* the brand filter of the run lets the feature through
PassesBrandFilter(f) == argv.filterBrand = "" \/ f.properties["brand"] = argv.filterBrand

\* whether a box holds a point, its edges included; a box with west > 0 > east runs
\* across the 180th meridian
Holds(bounds, lat, lon) ==
  /\ bounds.south <= lat /\ lat <= bounds.north
  /\ IF Wraps(bounds)
     THEN lon >= bounds.west \/ lon <= bounds.east
     ELSE bounds.west <= lon /\ lon <= bounds.east

InBoxOf(abbrev, lat, lon) == Holds(getKey(boundaries, abbrev), lat, lon)

\* the states of the table whose box holds the point
BoxesHolding(lat, lon) ==
  {boundaries[i][1] : i \in {j \in 1..Len(boundaries) : Holds(boundaries[j][2], lat, lon)}}

\* the record of the Cambridge scenario: these two tags and no other
IsCambridgeRecord(f) ==
  /\ f.hasGeometry
  /\ f.properties =
       Tags(<< <<"name", "Acme Store">>,
               <<"addr:full", "123 Main St, Cambridge, MA 02141">> >>)
  /\ InBoxOf("MA", f.lat, f.lon)

\* The statement of C6 as the specification has it: city "Cambridge" and state "MA".
C6_Original ==
  \A i \in 1..Len(input) :
    (script = "atp" /\ Assembled /\ argv.filterBrand = "" /\ IsCambridgeRecord(input[i])) =>
      \E k \in LocationsAt(roundTo6(input[i].lat), roundTo6(input[i].lon)) :
        locations[k].city = "Cambridge" /\ locations[k].state = "MA"

\* C6: the record with name "Acme Store", addr:full "123 Main St, Cambridge, MA 02141",
\* no city and no state tag and coordinates inside Massachusetts is emitted with city
\* "Cambridge" and an empty state, and the boundary report has no entry for it.
C6_CambridgeWithoutState ==
  \A i \in 1..Len(input) :
    (script = "atp" /\ Assembled /\ argv.filterBrand = "" /\ IsCambridgeRecord(input[i])) =>
      LET lat == roundTo6(input[i].lat)
          lon == roundTo6(input[i].lon)
      IN  /\ LocationsAt(lat, lon) # {}
          /\ \A k \in LocationsAt(lat, lon) :
               locations[k].city = "Cambridge" /\ locations[k].state = ""
          /\ (stateErrors.written => ReportedAt(lat, lon) = {})

\* The run is over, the brand file holds Cambridge without a state, the boundary report
\* is written.
C6_Witness ==
  /\ script = "atp" /\ pc = "done" /\ argv.filterBrand = ""
  /\ \E i \in 1..Len(input) : IsCambridgeRecord(input[i])
  /\ \E k \in 1..Len(brandFiles["acme"].locations) :
       /\ brandFiles["acme"].locations[k].city = "Cambridge"
       /\ brandFiles["acme"].locations[k].state = ""
  /\ stateErrors.written

\* the record of the Fort Lee scenario
IsFortLeeRecord(f) ==
  /\ f.hasGeometry
  /\ f.properties = Tags(<< <<"city", "FORT LEE">>, <<"state", "NJ">> >>)

\* The statement of C7 as the specification has it: coordinates inside New York (its
\* box), so an entry with stated state "NJ" and actual state "NY".
C7_Original ==
  \A i \in 1..Len(input) :
    (/\ script = "atp" /\ pc = "done" /\ argv.filterBrand = "" /\ stateErrors.written
     /\ IsFortLeeRecord(input[i])
     /\ InBoxOf("NY", input[i].lat, input[i].lon)) =>
      \E j \in ReportedAt(roundTo6(input[i].lat), roundTo6(input[i].lon)) :
        /\ stateErrors.lines[j].statedState = "NJ"
        /\ stateErrors.lines[j].actualStates = "NY"

\* C7: the record {city: "FORT LEE", state: "NJ"} is emitted as Fort Lee, NJ.  When its
\* emitted coordinates are outside New Jersey's box, the boundary report has an entry for
\* it with stated state "NJ" whose actual states are exactly the states whose boxes hold
\* the point ("NY" alone when New York's is the only one); when they are inside New
\* Jersey's box, the report has no entry for it.
C7_FortLeeMismatch ==
  \A i \in 1..Len(input) :
    (/\ script = "atp" /\ pc = "done" /\ argv.filterBrand = "" /\ stateErrors.written
     /\ IsFortLeeRecord(input[i])) =>
      LET lat == roundTo6(input[i].lat)
          lon == roundTo6(input[i].lon)
          holding == BoxesHolding(lat, lon)
      IN  /\ LocationsAt(lat, lon) # {}
          /\ \A k \in LocationsAt(lat, lon) :
               locations[k].city = "Fort Lee" /\ locations[k].state = "NJ"
          /\ IF InBoxOf("NJ", lat, lon)
             THEN ReportedAt(lat, lon) = {}
             ELSE /\ ReportedAt(lat, lon) # {}
                  /\ \A j \in ReportedAt(lat, lon) :
                       /\ stateErrors.lines[j].statedState = "NJ"
                       /\ stateErrors.lines[j].city = "Fort Lee"
                       /\ SeqToSet(split(stateErrors.lines[j].actualStates, "/"))
                            = (IF holding = {} THEN {"NONE"} ELSE holding)
                       /\ (holding = {"NY"} <=> stateErrors.lines[j].actualStates = "NY")

\* One run holds a Fort Lee inside New York's box only, reported with actual state "NY",
\* and one inside the boxes of New York and Massachusetts, reported with more than "NY".
C7_Witness ==
  /\ script = "atp" /\ pc = "done" /\ argv.filterBrand = "" /\ stateErrors.written
  /\ \E i \in 1..Len(input) :
       /\ IsFortLeeRecord(input[i])
       /\ BoxesHolding(roundTo6(input[i].lat), roundTo6(input[i].lon)) = {"NY"}
       /\ \E j \in ReportedAt(roundTo6(input[i].lat), roundTo6(input[i].lon)) :
            stateErrors.lines[j].statedState = "NJ" /\ stateErrors.lines[j].actualStates = "NY"
  /\ \E i \in 1..Len(input) :
       /\ IsFortLeeRecord(input[i])
       /\ BoxesHolding(roundTo6(input[i].lat), roundTo6(input[i].lon)) = {"NY", "MA"}
       /\ ReportedAt(roundTo6(input[i].lat), roundTo6(input[i].lon)) # {}

\* a feature that the geometry, brand and country filters let through and for which no
\* strategy recovers a city
IsCityMiss(f) ==
  /\ f.hasGeometry
  /\ PassesBrandFilter(f)
  /\ getProperty(f.properties, <<"addr:country", "country">>) \in {"US", ""}
  /\ extractedCity(f.properties, argv.displayName, zipcodeToCity) = ""

\* a tag from which the filter takes it that a city could be derived
HasCitySource(f) ==
  \/ f.properties["addr:full"] # ""
  \/ f.properties["addr:postcode"] # ""
  \/ f.properties["postcode"] # ""
  \/ includes(f.properties["name"], " of ")

\* The statement of C9 as the specification has it: the record is assembled with an
\* empty city, never dropped.
C9_Original ==
  \A i \in 1..Len(input) :
    (script = "atp" /\ Assembled /\ IsCityMiss(input[i])) =>
      \E k \in LocationsAt(roundTo6(input[i].lat), roundTo6(input[i].lon)) :
        locations[k].city = ""

\* C9: a record with usable coordinates and a US or empty country tag for which no
\* strategy recovers a city is assembled, with city "", exactly when it carries an
\* addr:full tag, a postcode tag or a name that contains " of "; without any of these
\* the filter drops it.  The run fails only when no location at all is assembled.
C9_MissKeptIfSource ==
  /\ \A i \in 1..Len(input) :
       (script = "atp" /\ pc \in {"assembled", "written", "done", "failed"}
          /\ IsCityMiss(input[i])) =>
         LET at == LocationsAt(roundTo6(input[i].lat), roundTo6(input[i].lon))
         IN  /\ (at # {} <=> HasCitySource(input[i]))
             /\ \A k \in at : locations[k].city = ""
  /\ (script = "atp" /\ pc = "failed" => Len(locations) = 0)

\* A run whose input holds a miss with a postcode tag and a miss without any source:
\* the first is in the brand file with city "", the second is not.
C9_Witness ==
  /\ script = "atp" /\ pc = "done"
  /\ \E i \in 1..Len(input) :
       /\ IsCityMiss(input[i]) /\ input[i].properties["postcode"] # ""
       /\ \E k \in 1..Len(brandFiles[argv.brandKey].locations) :
            /\ brandFiles[argv.brandKey].locations[k].lat = roundTo6(input[i].lat)
            /\ brandFiles[argv.brandKey].locations[k].city = ""
  /\ \E i \in 1..Len(input) :
       /\ IsCityMiss(input[i]) /\ ~HasCitySource(input[i])
       /\ LocationsAt(roundTo6(input[i].lat), roundTo6(input[i].lon)) = {}

\* C8: a run of either extractor that is left with no location exits with a failure and
\* writes nothing: no step that ends with an empty list or in the failed state changes
\* a brand file or the manifest, and the only step from an empty list is the exit.
C8_EmptyResultWritesNothing ==
  [][ /\ ((pc' \in {"assembled", "failed"} /\ Len(locations') = 0) =>
            (brandFiles' = brandFiles /\ manifest' = manifest))
      /\ ((pc = "assembled" /\ Len(locations) = 0) => pc' = "failed") ]_vars

\* A run whose features were all filtered out has failed; the brand file and the manifest
\* entry of an earlier run are still there.
C8_Witness ==
  /\ pc = "failed" /\ script = "atp"
  /\ Len(input) > 0 /\ Len(locations) = 0
  /\ "acme" \in DOMAIN brandFiles /\ brandFiles["acme"] = OldAcmeFile
  /\ hasKey(manifest.brands, "acme") /\ getKey(manifest.brands, "acme") = OldAcmeEntry
  /\ manifest.generated = 1

\* the elements that the loop does not skip for their coordinates or their country
Usable(element) ==
  /\ latOf(element) # 0 /\ lonOf(element) # 0
  /\ isUSOrCanada(element.tags, latOf(element), lonOf(element))

KeyOf(element) == <<toFixed4(latOf(element)), toFixed4(lonOf(element))>>

\* the indices of the usable elements that are the first of their 4-decimal key
FirstOfKey ==
  {i \in 1..Len(input) :
     /\ Usable(input[i])
     /\ \A j \in 1..(i - 1) : Usable(input[j]) => KeyOf(input[j]) # KeyOf(input[i])}

\* the location of an element: coordinates to 5 decimals, state in upper case
CanonicalOf(element) ==
  [lat |-> toFixed5(latOf(element)), lon |-> toFixed5(lonOf(element)),
   city |-> getCity(element.tags), state |-> getState(element.tags),
   address |-> getAddress(element.tags),
   name |-> IF argv.useLocationName THEN getName(element.tags) ELSE ""]

\* C3: the OpenStreetMap extractor emits one location for each 4-decimal key among the
\* usable elements, the location of the first element with that key in input order:
\* the list has as many locations as there are keys, and each first element's location
\* is in it as often as first elements have that location.
C3_FirstOfEachKey ==
  (script = "osm" /\ Assembled) =>
    /\ Len(locations) = Cardinality(FirstOfKey)
    /\ \A i \in FirstOfKey :
         Cardinality({k \in 1..Len(locations) : locations[k] = CanonicalOf(input[i])})
           = Cardinality({j \in FirstOfKey : CanonicalOf(input[j]) = CanonicalOf(input[i])})

\* The records at (40.00001, -74.00001) and (40.00004, -74.00002), in this order, give
\* one location: the first one's.
C3_Witness ==
  /\ script = "osm" /\ pc = "assembled"
  /\ Len(input) = 2
  /\ latOf(input[1]) = 400000100 /\ lonOf(input[1]) = -740000100
  /\ latOf(input[2]) = 400000400 /\ lonOf(input[2]) = -740000200
  /\ Len(locations) = 1
  /\ locations[1].city = "Hoboken" /\ locations[1].state = "NJ"
  /\ locations[1].address = "1 Main St"
  /\ locations[1].lat = 400000100 /\ locations[1].lon = -740000100


(***************************************************************************)
(* Properties of the emitted collections                                   *)
(***************************************************************************)
\* the collection that the run has written
Emitted == brandFiles[argv.brandKey].locations

\* the brand file of the run is on disk
Written == pc \in {"written", "done"}

\* (lat, lon) of an emitted location, both rounded to 4 decimals
RoundedPair(loc) == <<toFixed4(loc.lat), toFixed4(loc.lon)>>

\* C11: in the brand collection that a run of either extractor has written, no two
\* locations have the same (lat, lon) pair after both are rounded to 4 decimals.
C11_NoSharedRoundedPair ==
  Written =>
    \A i, j \in 1..Len(Emitted) :
      i # j => RoundedPair(Emitted[i]) # RoundedPair(Emitted[j])

\* C12: every emitted location has a latitude within [-90, 90] and a longitude within
\* [-180, 180]; a raw record with coordinates outside these ranges is not emitted.
C12_CoordinatesInRange ==
  Written =>
    \A k \in 1..Len(Emitted) :
      /\ -900000000 <= Emitted[k].lat /\ Emitted[k].lat <= 900000000
      /\ -1800000000 <= Emitted[k].lon /\ Emitted[k].lon <= 1800000000

\* the first value of a list of strings that is not empty, "" if there is none
RECURSIVE FirstNonEmpty(_)
FirstNonEmpty(values) ==
  IF Len(values) = 0 THEN ""
  ELSE IF Head(values) # "" THEN Head(values)
  ELSE FirstNonEmpty(Tail(values))

\* what each stage gives for the city of a feature, in the order of the stages: the
\* tags, the comma-split of addr:full, the name, a state name in addr:full, the
\* postcode, the URL
CityStages(f) ==
  << getProperty(f.properties, <<"addr:city", "city">>),
     extractCityFromFull(f.properties["addr:full"]),
     extractCityFromName(f.properties["name"], argv.displayName),
     IF f.properties["addr:full"] # "" THEN embeddedCity(f.properties["addr:full"]) ELSE "",
     getCityFromPostcode(zipcodeToCity,
                         getProperty(f.properties, <<"addr:postcode", "postcode">>)),
     extractLocationFromUrl(urlOf(f.properties)).city >>

\* what each stage gives for the state: the tags, the postcode, the URL
StateStages(f) ==
  << getProperty(f.properties, <<"addr:state", "state">>),
     getStateFromPostcode(zipcodeToState,
                          getProperty(f.properties, <<"addr:postcode", "postcode">>)),
     extractLocationFromUrl(urlOf(f.properties)).state >>

\* the features that the filters keep, in input order
KeptFeatures == SelectSeq(input, LAMBDA f : keepFeature(f, argv.filterBrand))

\* C13: the AllThePlaces extractor gives each kept feature, in input order, a location
\* whose state is the value of the first stage (tag, postcode, URL) that is not empty
\* and whose city is the cleaned and normalized value of the first stage (tag,
\* comma-split of addr:full, name, state name in addr:full, postcode, URL) that is not
\* empty: a later stage never replaces the value of an earlier one, and the city and
\* the state are filled independently of each other.
C13_FirstStageWins ==
  (script = "atp" /\ Assembled) =>
    \A kept \in {KeptFeatures} :
      /\ Len(locations) = Len(kept)
      /\ \A k \in 1..Len(locations) :
           /\ locations[k].state = FirstNonEmpty(StateStages(kept[k]))
           /\ locations[k].city =
                normalizeCity(cityAliases, cleanCity(FirstNonEmpty(CityStages(kept[k]))),
                              locations[k].state)

\* A feature with state tag "NJ", no city and the postcode of New York, NY keeps its
\* state and takes the city of the postcode; a feature whose name gives the city takes
\* its state from the URL.
C13_Witness ==
  /\ script = "atp" /\ pc = "assembled"
  /\ Len(input) = 2 /\ Len(locations) = 2
  /\ input[1] = TaggedNJWithNYPostcode
  /\ locations[1].state = "NJ" /\ locations[1].city = "New York"
  /\ input[2].properties["name"] = "Rita's of Emmaus PA"
  /\ locations[2].city = "Emmaus" /\ locations[2].state = "PA"

(***************************************************************************)
(* Two extractions of different brands side by side                        *)
(***************************************************************************)
\* A worker is one run of an extractor, a process of its own:
\* [script, argv, pc, input, locations, manifest], where manifest is the worker's
\* parsed copy of manifest.json.  Its steps are the reads and writes of files; what
\* lies between two of them is the process's own.

ArgvOf(brandKey, displayName) ==
  [brandKey |-> brandKey, displayName |-> displayName, category |-> "store",
   filterBrand |-> "", useLocationName |-> FALSE]

Worker(kind, args, features) ==
  [script |-> kind, argv |-> args, pc |-> "start", input |-> features,
   locations |-> <<>>, manifest |-> EmptyManifest]

\* the inputs of a worker: files with one and with two records, and one with no
\* record that the filters keep
AtpWorkerInputs ==
  { <<FortLeeInAlbany>>, <<CambridgeWithPostcode, FortLeeInManhattan>>,
    <<Feature(391000000, -751000000, <<>>)>> }

OsmWorkerInputs ==
  { <<SecondOfPair, FirstOfPair>>, <<FirstOfPair>>,
    <<Way(FALSE, 0, 0, << <<"addr:city", "Trenton">>, <<"addr:state", "NJ">> >>)>> }

WorkersOf(kind, args) ==
  {Worker(kind, args, features) :
     features \in IF kind = "atp" THEN AtpWorkerInputs ELSE OsmWorkerInputs}

InitPar ==
  /\ cityAliases = SampleAliases
  /\ zipcodeToCity = loadZipcodeToCity(SampleZipRows)
  /\ zipcodeToState = loadZipcodeToState(SampleZipRows)
  /\ boundaries = loadedBoundaries(SampleBoundaryRows)
  /\ validCities = loadValidCities(SampleZipRows, SampleOfficialCities)
  /\ argv = NoArgv
  /\ script = "none"
  /\ pc = "idle"
  /\ input = <<>>
  /\ locations = <<>>
  /\ batch = NoBatch
  /\ \E first \in {"atp", "osm"}, second \in {"atp", "osm"} :
       \E w1 \in WorkersOf(first, ArgvOf("acme", "Acme")),
          w2 \in WorkersOf(second, ArgvOf("bravo", "Bravo")) :
         workers = <<w1, w2>>
  /\ \E before \in {WithoutAcme, WithAcme} :
       brandFiles = before.files /\ manifest = before.manifest
  /\ stateErrors = NoReport
  /\ badLocations = NoReport
  /\ hCity = ""
  /\ hState = ""
  /\ hStage = "raw"
  /\ hInput = ""
  /\ hFirst = ""

\* the locations that a worker builds from its input
assembledBy(w) ==
  IF w.script = "atp" THEN atpLocations(w.argv, w.input)
  ELSE osmLocations(w.argv, w.input)

\* the OpenStreetMap extractor sorts its locations before it writes
sortedBy(w) ==
  IF w.script = "osm" THEN sort(w.locations, compareLocations) ELSE w.locations

brandFileOf(w) ==
  IF w.script = "atp" THEN atpBrandData(w.argv, w.locations)
  ELSE osmBrandData(w.argv, w.locations)

manifestEntryOf(w) ==
  IF w.script = "atp" THEN atpManifestEntry(w.argv, w.locations)
  ELSE osmManifestEntry(w.argv, w.locations)

updatedManifestOf(w, m) ==
  IF w.script = "atp" THEN atpUpdatedManifest(w.argv, w.locations, m)
  ELSE osmUpdatedManifest(w.argv, w.locations, m)

otherVars ==
  <<refVars, argv, script, pc, input, locations, batch, reportVars, harnessVars>>

\* the input is read and the locations are built; with none, process.exit(1)
WorkerReadInput(i) ==
  /\ workers[i].pc = "start"
  /\ \E locs \in {assembledBy(workers[i])} :
       workers' = [workers EXCEPT
                     ![i].locations = locs,
                     ![i].pc = IF Len(locs) = 0 THEN "failed" ELSE "assembled"]
  /\ UNCHANGED <<fileVars, otherVars>>

\* fs.writeFileSync of brands/<key>.json
WorkerWriteBrandFile(i) ==
  /\ workers[i].pc = "assembled"
  /\ workers' = [workers EXCEPT ![i].locations = sortedBy(workers[i]), ![i].pc = "written"]
  /\ brandFiles' = (workers[i].argv.brandKey :> brandFileOf(workers'[i])) @@ brandFiles
  /\ UNCHANGED <<manifest, otherVars>>

\* const manifest = JSON.parse(fs.readFileSync(MANIFEST_FILE, 'utf-8'))
WorkerReadManifest(i) ==
  /\ workers[i].pc = "written"
  /\ workers' = [workers EXCEPT ![i].manifest = manifest, ![i].pc = "read"]
  /\ UNCHANGED <<fileVars, otherVars>>

\* the worker's copy gets the brand's entry and is written over manifest.json
WorkerWriteManifest(i) ==
  /\ workers[i].pc = "read"
  /\ manifest' = updatedManifestOf(workers[i], workers[i].manifest)
  /\ workers' = [workers EXCEPT ![i].pc = "done"]
  /\ UNCHANGED <<brandFiles, otherVars>>

NextPar ==
  \/ \E i \in DOMAIN workers : WorkerReadInput(i)
  \/ \E i \in DOMAIN workers : WorkerWriteBrandFile(i)
  \/ \E i \in DOMAIN workers : WorkerReadManifest(i)
  \/ \E i \in DOMAIN workers : WorkerWriteManifest(i)

SpecPar == InitPar /\ [][NextPar]_vars

\* both runs have finished
BothDone == workers[1].pc = "done" /\ workers[2].pc = "done"

\* C20: when two runs for different brands have both finished, in whatever order their
\* steps were taken, both brand files are on disk and the manifest holds the entries
\* of both brands, next to the entry of the brand that no run was about, as it does
\* after the two runs one after the other.
C20_BothEntriesAfterBothRuns ==
  BothDone =>
    /\ \A i \in {1, 2} :
         /\ workers[i].argv.brandKey \in DOMAIN brandFiles
         /\ brandFiles[workers[i].argv.brandKey] = brandFileOf(workers[i])
         /\ hasKey(manifest.brands, workers[i].argv.brandKey)
         /\ getKey(manifest.brands, workers[i].argv.brandKey) = manifestEntryOf(workers[i])
    /\ hasKey(manifest.brands, "zeta") /\ getKey(manifest.brands, "zeta") = ZetaEntry
    /\ Len(manifest.brands) = 3

(***************************************************************************)
(* Which records the extractors keep                                       *)
(***************************************************************************)
NamesUSOrCanada(country) == toUpperCase(country) \in {"US", "USA", "CA", "CAN"}

HasJurisdictionCode(state) == toUpperCase(state) \in US_STATES \cup CA_PROVINCES

InNorthAmericaBox(lat, lon) ==
  lat >= BOX_SOUTH /\ lat <= BOX_NORTH /\ lon >= BOX_WEST /\ lon <= BOX_EAST

\* the elements with coordinates whose 4-decimal key and 5-decimal pair no other
\* element of the input has
OsmAlone ==
  {i \in 1..Len(input) :
     /\ latOf(input[i]) # 0 /\ lonOf(input[i]) # 0
     /\ \A j \in 1..Len(input) :
          j # i => /\ KeyOf(input[j]) # KeyOf(input[i])
                   /\ <<toFixed5(latOf(input[j])), toFixed5(lonOf(input[j]))>>
                        # <<toFixed5(latOf(input[i])), toFixed5(lonOf(input[i]))>>}

OsmKept(element) ==
  \E k \in 1..Len(locations) :
    /\ locations[k].lat = toFixed5(latOf(element))
    /\ locations[k].lon = toFixed5(lonOf(element))

\* the feature without its country tags
WithoutCountry(f) ==
  [f EXCEPT !.properties = [k \in TAG_KEYS |->
                              IF k \in {"addr:country", "country"} THEN "" ELSE f.properties[k]]]

CountryOf(f) == getProperty(f.properties, <<"addr:country", "country">>)

\* the features that pass every filter but the one on the country, and whose
\* coordinates no other feature of the input has
AtpAlone ==
  {i \in 1..Len(input) :
     /\ keepFeature(WithoutCountry(input[i]), argv.filterBrand)
     /\ \A j \in 1..Len(input) :
          j # i => <<roundTo6(input[j].lat), roundTo6(input[j].lon)>>
                     # <<roundTo6(input[i].lat), roundTo6(input[i].lon)>>}

AtpKept(f) ==
  \E k \in 1..Len(locations) :
    locations[k].lat = roundTo6(f.lat) /\ locations[k].lon = roundTo6(f.lon)

\* C21 as the spec states it: a record whose country tag names another country than the
\* US or Canada is dropped whatever its state code and coordinates, and a record
\* without a country tag is kept iff its state code is a US or Canadian one or its
\* coordinates are in the box.
C21_Original ==
  Assembled =>
    /\ script = "osm" =>
         \A i \in OsmAlone :
           LET e == input[i]
               country == e.tags["addr:country"]
           IN  /\ (country # "" /\ ~NamesUSOrCanada(country)) => ~OsmKept(e)
               /\ country = "" =>
                    (OsmKept(e) <=> \/ HasJurisdictionCode(getState(e.tags))
                                    \/ InNorthAmericaBox(latOf(e), lonOf(e)))
    /\ script = "atp" =>
         \A i \in AtpAlone :
           LET f == input[i]
               state == getProperty(f.properties, <<"addr:state", "state">>)
           IN  /\ (CountryOf(f) # "" /\ ~NamesUSOrCanada(CountryOf(f))) => ~AtpKept(f)
               /\ CountryOf(f) = "" =>
                    (AtpKept(f) <=> \/ HasJurisdictionCode(state)
                                    \/ InNorthAmericaBox(f.lat, f.lon))

\* C21: the OpenStreetMap extractor keeps a record with coordinates iff its country tag
\* names the US or Canada, or its state code is a US or Canadian one, or its coordinates
\* are in the box (lat 24..72, lon -170..-50): the tag of another country does not drop
\* a record that its state code or its coordinates let in.  The AllThePlaces extractor
\* keeps a record that passes its other filters iff its country tag is "US" or absent,
\* whatever its state code and coordinates.
C21_KeptByAnyOfThree ==
  Assembled =>
    /\ script = "osm" =>
         \A i \in OsmAlone :
           LET e == input[i]
           IN  OsmKept(e) <=> \/ NamesUSOrCanada(e.tags["addr:country"])
                              \/ HasJurisdictionCode(getState(e.tags))
                              \/ InNorthAmericaBox(latOf(e), lonOf(e))
    /\ script = "atp" =>
         \A i \in AtpAlone : AtpKept(input[i]) <=> CountryOf(input[i]) \in {"US", ""}

\* The record tagged as Mexico at (32.5, -117.0) is kept and the one tagged as Great
\* Britain at (51.5074, -0.1278) is dropped.
C21_Witness ==
  /\ script = "osm" /\ pc = "assembled"
  /\ Len(input) = 2
  /\ input[1].tags["addr:country"] = "MX" /\ input[2].tags["addr:country"] = "GB"
  /\ Len(locations) = 1
  /\ locations[1].lat = 325000000 /\ locations[1].lon = -1170000000
  /\ locations[1].city = "Tijuana"

\* C22: the location list of every brand collection that a run has written is sorted by
\* (state, city): of two consecutive locations the first has the smaller state, or the
\* same state and a city that is not greater.
C22_SortedByStateCity ==
  Written =>
    \A k \in 1..(Len(Emitted) - 1) :
      \/ localeCompare(Emitted[k].state, Emitted[k + 1].state) < 0
      \/ /\ Emitted[k].state = Emitted[k + 1].state
         /\ localeCompare(Emitted[k].city, Emitted[k + 1].city) <= 0

\* the sentinel of test data: the city "Test" or "test" with the state "AL"
IsTestRecord(f) ==
  /\ getProperty(f.properties, <<"addr:city", "city">>) \in {"Test", "test"}
  /\ getProperty(f.properties, <<"addr:state", "state">>) = "AL"

\* C23: a record that is test data (city "Test" or "test" with state "AL") or that has
\* no usable coordinates is not in the assembled list, neither with its city nor with
\* an empty city: the list has no location at its coordinates.
C23_TestAndCoordinatelessDiscarded ==
  Assembled =>
    /\ script = "atp" =>
         \A i \in 1..Len(input) :
           (IsTestRecord(input[i]) \/ ~input[i].hasGeometry) => ~AtpKept(input[i])
    /\ script = "osm" =>
         \A i \in 1..Len(input) :
           (latOf(input[i]) = 0 \/ lonOf(input[i]) = 0) => ~OsmKept(input[i])

\* the city that the filter of extract-brand.js looks at: the city tag, or the city
\* of the full address when there is no tag
FilterCity(f) ==
  LET tagged == getProperty(f.properties, <<"addr:city", "city">>)
  IN  IF tagged = "" /\ f.properties["addr:full"] # ""
      THEN extractCityFromFull(f.properties["addr:full"])
      ELSE tagged

NameCity(f) == extractCityFromName(f.properties["name"], argv.displayName)

\* the cities of the locations at the feature's coordinates
CitiesAt(f) ==
  {locations[k].city : k \in {j \in 1..Len(locations) :
                                 /\ locations[j].lat = roundTo6(f.lat)
                                 /\ locations[j].lon = roundTo6(f.lon)}}

\* C24 as the spec states it: when the city of the tag, of the full address or of the
\* name matches the hotel and resort vocabulary, the record is dropped or its location
\* has a city that does not match.
C24_Original ==
  (script = "atp" /\ Assembled) =>
    \A i \in 1..Len(input) :
      (\/ isHotelOrResortName(FilterCity(input[i]))
       \/ isHotelOrResortName(NameCity(input[i])))
        => \A city \in CitiesAt(input[i]) : ~isHotelOrResortName(city)

\* C24: a record whose city tag, or whose full address's city when it has no city tag,
\* matches the hotel and resort vocabulary is dropped by extract-brand.js; a city taken
\* from the name is not tested: a record without a city tag and a full address that
\* passes the other filters is kept when the city of its name matches the vocabulary.
C24_HotelCityOfTagOrAddressDropped ==
  (script = "atp" /\ Assembled) =>
    \A i \in 1..Len(input) :
      /\ isHotelOrResortName(FilterCity(input[i])) => ~AtpKept(input[i])
      /\ (/\ FilterCity(input[i]) = ""
          /\ isHotelOrResortName(NameCity(input[i]))
          /\ i \in AtpAlone
          /\ CountryOf(input[i]) \in {"US", ""})
           => AtpKept(input[i])

\* Of "Manor" in the city tag and "Acme Store of Manor" in the name, the second record
\* is kept, with the city Manor.
C24_Witness ==
  /\ script = "atp" /\ pc = "assembled"
  /\ Len(input) = 2
  /\ FilterCity(input[1]) = "Manor"
  /\ input[2].properties["name"] = "Acme Store of Manor"
  /\ Len(locations) = 1
  /\ locations[1].city = "Manor"
  /\ locations[1].lat = 303500000 /\ locations[1].lon = -975600000

\* C25: the state of every location of a brand collection that a run has written is
\* the empty string or the 2-letter code of a US state, of DC, of a territory or of a
\* Canadian province.
C25_StateIsCodeOrEmpty ==
  Written =>
    \A k \in 1..Len(Emitted) :
      Emitted[k].state = "" \/ Emitted[k].state \in US_STATES \cup CA_PROVINCES

(***************************************************************************)
(* The field extractor on its own: extractCityFromFull on an address made  *)
(* of comma-separated parts, extractLocationFromUrl on a location URL made *)
(* of a slug's tokens                                                      *)
(***************************************************************************)
\* the most parts of an address and the most tokens of a slug
MaxParts == 4

AddressParts == {"5 Main St", "Springfield", "Illinois", "Suite 4", "Mall Road", "ohio"}

SlugTokens == {"of", "dickson", "city", "pa", "12", "ny"}

\* script tells which of the two is called, input holds the parts or the tokens
InitFields ==
  /\ cityAliases = NoAliases
  /\ zipcodeToCity = EmptyMap
  /\ zipcodeToState = EmptyMap
  /\ boundaries = <<>>
  /\ validCities = {}
  /\ argv = NoArgv
  /\ \/ script = "full" /\ input \in SeqsUpTo(AddressParts, MaxParts)
     \/ script = "url" /\ input \in SeqsUpTo(SlugTokens, MaxParts)
  /\ pc = "start"
  /\ locations = <<>>
  /\ workers = <<>>
  /\ batch = NoBatch
  /\ brandFiles = EmptyMap
  /\ manifest = EmptyManifest
  /\ stateErrors = NoReport
  /\ badLocations = NoReport
  /\ hCity = ""
  /\ hState = ""
  /\ hStage = ""
  /\ hInput = ""
  /\ hFirst = ""

\* city = extractCityFromFull(props['addr:full'])
ExtractFromFull ==
  /\ script = "full" /\ pc = "start"
  /\ hInput' = join(input, ", ")
  /\ hCity' = extractCityFromFull(hInput')
  /\ pc' = "done"
  /\ UNCHANGED <<argv, script, input, locations, workers, batch, hState, hStage, hFirst>>
  /\ UNCHANGED <<refVars, fileVars, reportVars>>

\* urlInfo = extractLocationFromUrl(props['@source_uri'] || props['website'])
ExtractFromUrl ==
  /\ script = "url" /\ pc = "start"
  /\ hInput' = "https://www.ritasice.com/location/" \o join(input, "-") \o "/"
  /\ \E urlInfo \in {extractLocationFromUrl(hInput')} :
       hCity' = urlInfo.city /\ hState' = urlInfo.state
  /\ pc' = "done"
  /\ UNCHANGED <<argv, script, input, locations, workers, batch, hStage, hFirst>>
  /\ UNCHANGED <<refVars, fileVars, reportVars>>

NextFields == ExtractFromFull \/ ExtractFromUrl

SpecFields == InitFields /\ [][NextFields]_vars

\* the first part that is a state's full name, 0 if there is none
FirstStateName ==
  IF \E i \in 1..Len(input) : isStateName(input[i])
  THEN MinOf({i \in 1..Len(input) : isStateName(input[i])})
  ELSE 0

StartsWithDigit(part) == IsDigit(Ch(part, 1))

\* what the city before a state name must not start with, and the second part
UnitPrefixes == {"space", "suite", "unit", "floor", "room"}
DetailPrefixes == UnitPrefixes \cup {"mall"}

StateCodeTokens ==
  {i \in 1..Len(input) :
     Len(input[i]) = 2 /\ toUpperCase(input[i]) \in SeqToSet(STATE_ABBREVS)}

LastOf(S) == CHOOSE i \in S : \A j \in S : j <= i

IsFiller(token) ==
  token \in {"ritas", "of", "loc", "store", "location"} \/ AllDigits(token)

\* the tokens before token n that are not fillers, each with its first letter in upper
\* case, joined by spaces
CityBefore(n) ==
  LET kept == SelectSeq(SubSeq(input, 1, n - 1), LAMBDA t : ~IsFiller(t))
  IN  join([i \in 1..Len(kept) |->
              toUpperChar(Ch(kept[i], 1)) \o SubSeq(kept[i], 2, Len(kept[i]))], " ")

\* C28 as the spec states it: the state is the last token when it is a state code, the
\* city is made of the tokens before it, and both are empty when the last token is
\* not a state code or no city token is left.
C28_Original ==
  (script = "url" /\ pc = "done") =>
    IF /\ Len(input) \in StateCodeTokens
       /\ CityBefore(Len(input)) # ""
    THEN hState = toUpperCase(input[Len(input)]) /\ hCity = CityBefore(Len(input))
    ELSE hState = "" /\ hCity = ""

\* C28: the state is the last of the slug's tokens that is a two-letter state code,
\* wherever it stands after the first token, and the tokens behind it are ignored;
\* the city is made of the tokens before it that are neither fillers nor digits only,
\* each capitalized, joined by spaces.  Both are empty when no token is a state code,
\* when the only one is the first token, or when no city token is left.
C28_StateFromLastCodeToken ==
  (script = "url" /\ pc = "done") =>
    IF /\ StateCodeTokens # {}
       /\ CityBefore(LastOf(StateCodeTokens)) # ""
    THEN /\ hState = toUpperCase(input[LastOf(StateCodeTokens)])
         /\ hCity = CityBefore(LastOf(StateCodeTokens))
    ELSE hState = "" /\ hCity = ""

\* the slug dickson-city-pa-12 gives Dickson City, PA
C28_Witness ==
  /\ script = "url" /\ pc = "done"
  /\ input = <<"dickson", "city", "pa", "12">>
  /\ hInput = "https://www.ritasice.com/location/dickson-city-pa-12/"
  /\ hCity = "Dickson City" /\ hState = "PA"

(***************************************************************************)
(* re-extract-all: extract-brand.js run for every brand of the mapping     *)
(***************************************************************************)
\* the most brands of a category of brand-mapping.json
MaxBrands == 2

MappedBrand(key, spider, filterBrand) ==
  [key |-> key, spider |-> spider, displayName |-> key, filterBrand |-> filterBrand]

StoreBrands == {MappedBrand("acme", "acme", ""), MappedBrand("bravo", "bravo_markets", "")}

\* two brands of one spider, told apart by filterBrand, and a brand of its own
FuelBrands ==
  {MappedBrand("exxon", "exxon_mobil", "Exxon"), MappedBrand("mobil", "exxon_mobil", "Mobil"),
   MappedBrand("shell", "shell", "")}

\* mapping.brands: the categories in the order of Object.keys, each with its brands
Mappings ==
  {<< <<"store", stores>>, <<"fuel", fuels>> >> :
     stores \in SeqsUpTo(StoreBrands, MaxBrands), fuels \in SeqsUpTo(FuelBrands, MaxBrands)}

\* the spiders whose run of extract-brand.js ends with exit code 0
WorkingSpiders == SUBSET {"acme", "acme_us", "bravo_markets_us", "shell"}

\* the loops of lines 17-26 from category c on
RECURSIVE flattenFrom(_, _)
flattenFrom(brands, c) ==
  IF c > Len(brands) THEN <<>>
  ELSE SelectSeq(brands[c][2], LAMBDA brand : brand.filterBrand = "")
         \o flattenFrom(brands, c + 1)

allBrandsOf(brands) == flattenFrom(brands, 1)

\* const spiderVariants = [spider, `${spider}_us`]
spiderVariants(brand) == <<brand.spider, brand.spider \o "_us">>

InitBatch ==
  /\ cityAliases = NoAliases
  /\ zipcodeToCity = EmptyMap
  /\ zipcodeToState = EmptyMap
  /\ boundaries = <<>>
  /\ validCities = {}
  /\ argv = NoArgv
  /\ script = "none"
  /\ pc = "idle"
  /\ input = <<>>
  /\ locations = <<>>
  /\ workers = <<>>
  /\ \E mapping \in Mappings, working \in WorkingSpiders :
       batch = [NoBatch EXCEPT !.pc = "start", !.mapping = mapping, !.working = working]
  /\ brandFiles = EmptyMap
  /\ manifest = EmptyManifest
  /\ stateErrors = NoReport
  /\ badLocations = NoReport
  /\ hCity = ""
  /\ hState = ""
  /\ hStage = ""
  /\ hInput = ""
  /\ hFirst = ""

batchOthers ==
  <<refVars, argv, script, pc, input, locations, workers, fileVars, reportVars, harnessVars>>

\* lines 15-32: the mapping is flattened, the counters are set
BatchFlatten ==
  /\ batch.pc = "start"
  /\ batch' = [batch EXCEPT !.pc = "loop", !.allBrands = allBrandsOf(batch.mapping),
                            !.brand = 1, !.variant = 1]
  /\ UNCHANGED batchOthers

\* the spider that the next execSync names
NextSpider == spiderVariants(batch.allBrands[batch.brand])[batch.variant]

Attempt == <<batch.allBrands[batch.brand].key, NextSpider>>

\* execSync returns: success++, extracted = true, break, and the next brand
BatchExtracted ==
  /\ batch.pc = "loop" /\ batch.brand <= Len(batch.allBrands)
  /\ NextSpider \in batch.working
  /\ batch' = [batch EXCEPT !.tried = Append(@, Attempt), !.success = @ + 1,
                            !.brand = @ + 1, !.variant = 1]
  /\ UNCHANGED batchOthers

\* execSync throws on the first variant: the catch block, then the second variant
BatchTryNextVariant ==
  /\ batch.pc = "loop" /\ batch.brand <= Len(batch.allBrands)
  /\ NextSpider \notin batch.working
  /\ batch.variant = 1
  /\ batch' = [batch EXCEPT !.tried = Append(@, Attempt), !.variant = 2]
  /\ UNCHANGED batchOthers

\* execSync throws on the second variant, and the driver stops
BatchFailedAndStops ==
  /\ batch.pc = "loop" /\ batch.brand <= Len(batch.allBrands)
  /\ NextSpider \notin batch.working
  /\ batch.variant = 2
  /\ batch' = [batch EXCEPT !.tried = Append(@, Attempt), !.failed = @ + 1,
                            !.failures = Append(@, batch.allBrands[batch.brand].key),
                            !.pc = "done"]
  /\ UNCHANGED batchOthers

\* execSync throws on the second variant: failed++, failures.push(key), and the next brand
BatchFailed ==
  /\ batch.pc = "loop" /\ batch.brand <= Len(batch.allBrands)
  /\ NextSpider \notin batch.working
  /\ batch.variant = 2
  /\ batch' = [batch EXCEPT !.tried = Append(@, Attempt), !.failed = @ + 1,
                            !.failures = Append(@, batch.allBrands[batch.brand].key),
                            !.brand = @ + 1, !.variant = 1]
  /\ UNCHANGED batchOthers

\* the loop is over: the summary is printed
BatchSummary ==
  /\ batch.pc = "loop" /\ batch.brand > Len(batch.allBrands)
  /\ batch' = [batch EXCEPT !.pc = "done"]
  /\ UNCHANGED batchOthers

NextBatch ==
  BatchFlatten \/ BatchExtracted \/ BatchTryNextVariant \/ BatchFailed \/ BatchSummary

\* the driver is one sequential loop and execSync waits for its child to end
SpecBatch == InitBatch /\ [][NextBatch]_vars /\ WF_vars(NextBatch)

\* the entries of the mapping without filterBrand, category after category
Attempted ==
  LET all == batch.mapping[1][2] \o batch.mapping[2][2]
  IN  SelectSeq(all, LAMBDA brand : brand.filterBrand = "")

BothVariantsFail(brand) ==
  brand.spider \notin batch.working /\ (brand.spider \o "_us") \notin batch.working

\* what the driver runs for a brand: its spider, and the _us spider if that one fails
RunsFor(brand) ==
  IF brand.spider \in batch.working THEN << <<brand.key, brand.spider>> >>
  ELSE << <<brand.key, brand.spider>>, <<brand.key, brand.spider \o "_us">> >>

RECURSIVE RunsFrom(_, _)
RunsFrom(brands, k) ==
  IF k > Len(brands) THEN <<>> ELSE RunsFor(brands[k]) \o RunsFrom(brands, k + 1)

\* the summary: every brand without filterBrand was run once, its spider first and the
\* _us spider only after that one failed, the failures are the brands of which both
\* failed, in their order, and the two counters add up to the number of brands
SummaryIsRight ==
  batch.pc = "done" =>
    /\ batch.tried = RunsFrom(Attempted, 1)
    /\ batch.failures =
         [k \in 1..Len(SelectSeq(Attempted, BothVariantsFail)) |->
            SelectSeq(Attempted, BothVariantsFail)[k].key]
    /\ batch.failed = Len(batch.failures)
    /\ batch.success + batch.failed = Len(Attempted)

\* C30: the driver ends, and when it has ended it has run extract-brand.js for every
\* brand of the mapping that has no filterBrand, once, with the spider and then, only
\* if that failed, with the _us spider; the brands of which both runs failed are the
\* failures list, a failure does not end the loop, and success + failed is the number
\* of these brands.
C30_EveryBrandRunThenSummary ==
  [] SummaryIsRight /\ <>(batch.pc = "done")

\* acme fails twice, shell is extracted after it, and the brands with filterBrand
\* are left out
C30_Witness ==
  /\ batch.pc = "done"
  /\ batch.tried = << <<"acme", "acme">>, <<"acme", "acme_us">>, <<"shell", "shell">> >>
  /\ \E c \in 1..2, k \in 1..MaxBrands :
       k <= Len(batch.mapping[c][2]) /\ batch.mapping[c][2][k].filterBrand # ""
  /\ batch.failures = <<"acme">>
  /\ batch.success = 1 /\ batch.failed = 1
====
